---------------------------- MODULE Spec2Model ----------------------------
(***************************************************************************)
(* A model of the Suricata rule browser's in-memory query engine: the      *)
(* rule cache and its (re)load, the search-query parser, the filter /      *)
(* sort / paginate pipeline of get_rules, the statistics cache and the     *)
(* transform dry-run.                                                      *)
(*                                                                         *)
(* Python strings are sequences of characters (one-character TLA+          *)
(* strings); None for an optional string is the one-element sequence       *)
(* None, an optional integer is <<>> (None) or <<n>>.                      *)
(***************************************************************************)
EXTENDS Integers, Sequences, FiniteSets, TLC

VARIABLES
    rules_cache,     \* _rules_cache: the published rule list
    rules_loaded,    \* _rules_loaded
    stats_cache,     \* _stats_cache: <<>> (None) or <<the frequency tables>>
    llm_summaries,   \* _llm_summaries: the SIDs that have a summary
    started,         \* the lifespan startup handler has run
    transform_files, \* the files of the transform repository's storage_dir
    req,             \* the request of the last handler that ran
    resp             \* what the last handler returned (what its caller observes)

vars == <<rules_cache, rules_loaded, stats_cache, llm_summaries, started, transform_files,
          req, resp>>

shared == <<rules_cache, rules_loaded, stats_cache, llm_summaries>>

-----------------------------------------------------------------------------
(* Characters and Python's str operations *)

\* The printable ASCII characters, in code-point order from 32 (space).
Ascii ==
    << " ", "!", "\"", "#", "$", "%", "&", "'", "(", ")", "*", "+", ",", "-", ".", "/",
       "0", "1", "2", "3", "4", "5", "6", "7", "8", "9", ":", ";", "<", "=", ">", "?",
       "@", "A", "B", "C", "D", "E", "F", "G", "H", "I", "J", "K", "L", "M", "N", "O",
       "P", "Q", "R", "S", "T", "U", "V", "W", "X", "Y", "Z", "[", "\\", "]", "^", "_",
       "BQ", "a", "b", "c", "d", "e", "f", "g", "h", "i", "j", "k", "l", "m", "n", "o",
       "p", "q", "r", "s", "t", "u", "v", "w", "x", "y", "z", "{", "|", "}", "~" >>

\* "NUL" stands for the character \x00, "TAB" for \t and "BQ" for the backquote.
OrdTable ==
    [c \in {Ascii[i] : i \in 1..Len(Ascii)} \cup {"NUL", "TAB"} |->
        IF c = "NUL" THEN 0
        ELSE IF c = "TAB" THEN 9
        ELSE 31 + (CHOOSE i \in 1..Len(Ascii) : Ascii[i] = c)]

Ord(c) == OrdTable[c]

Chr(n) == Ascii[n - 31]

IsUpperChar(c) == Ord(c) >= 65 /\ Ord(c) <= 90

IsLowerChar(c) == Ord(c) >= 97 /\ Ord(c) <= 122

IsDigitChar(c) == Ord(c) >= 48 /\ Ord(c) <= 57

\* \w of Python's re for ASCII text
IsWordChar(c) == IsUpperChar(c) \/ IsLowerChar(c) \/ IsDigitChar(c) \/ c = "_"

IsSpaceChar(c) == c = " " \/ c = "TAB"

\* str.lower()
Lower(s) == [i \in 1..Len(s) |-> IF IsUpperChar(s[i]) THEN Chr(Ord(s[i]) + 32) ELSE s[i]]

\* str.upper()
Upper(s) == [i \in 1..Len(s) |-> IF IsLowerChar(s[i]) THEN Chr(Ord(s[i]) - 32) ELSE s[i]]

\* needle in hay
Contains(hay, needle) ==
    \E i \in 0..(Len(hay) - Len(needle)) : SubSeq(hay, i + 1, i + Len(needle)) = needle

\* s.startswith(p)
StartsWith(s, p) == Len(s) >= Len(p) /\ SubSeq(s, 1, Len(p)) = p

\* s.replace(old, new), old not empty
RECURSIVE ReplaceAll(_, _, _)
ReplaceAll(s, old, new) ==
    IF Len(s) < Len(old) THEN s
    ELSE IF SubSeq(s, 1, Len(old)) = old
         THEN new \o ReplaceAll(SubSeq(s, Len(old) + 1, Len(s)), old, new)
         ELSE <<Head(s)>> \o ReplaceAll(Tail(s), old, new)

\* str(n) for an integer n >= 0
RECURSIVE IntStr(_)
IntStr(n) ==
    IF n < 10 THEN <<Chr(48 + n)>>
    ELSE IntStr(n \div 10) \o <<Chr(48 + (n % 10))>>

\* a < b for Python strings: lexicographic by code point
RECURSIVE StrLess(_, _)
StrLess(a, b) ==
    IF b = <<>> THEN FALSE
    ELSE IF a = <<>> THEN TRUE
    ELSE IF Ord(Head(a)) # Ord(Head(b)) THEN Ord(Head(a)) < Ord(Head(b))
    ELSE StrLess(Tail(a), Tail(b))

\* None in a field of type Optional[str]
None == << "None" >>

\* Python truthiness of an Optional[str]
Truthy(s) == s # None /\ s # <<>>

\* x or "" for an Optional[str]
OrEmpty(s) == IF Truthy(s) THEN s ELSE <<>>

Min(S) == CHOOSE x \in S : \A y \in S : x <= y

Range(f) == {f[i] : i \in DOMAIN f}

-----------------------------------------------------------------------------
(* parse_search_query *)

\* ESCAPED_EXCLAMATION = '\x00ESCAPED_EXCLAMATION\x00'
ESCAPED_EXCLAMATION ==
    << "NUL", "E", "S", "C", "A", "P", "E", "D", "_",
       "E", "X", "C", "L", "A", "M", "A", "T", "I", "O", "N", "NUL" >>

\* re.findall(quoted_pattern, query) and re.sub(quoted_pattern, '', query) for
\* quoted_pattern = (!?)"([^"]*)", scanning from index i: the leftmost
\* matches, not overlapping; what no match covers is the remaining text.
RECURSIVE ScanQuoted(_, _)
ScanQuoted(q, i) ==
    IF i > Len(q) THEN [matches |-> <<>>, remaining |-> <<>>]
    ELSE LET bang   == q[i] = "!" /\ i + 1 <= Len(q) /\ q[i + 1] = "\""
             open   == IF bang THEN i + 1 ELSE i
             closes == {j \in (open + 1)..Len(q) : q[j] = "\""}
         IN  IF q[open] = "\"" /\ closes # {}
             THEN LET j    == Min(closes)
                      rest == ScanQuoted(q, j + 1)
                  IN  [matches   |-> <<[prefix  |-> IF bang THEN "!" ELSE "",
                                        content |-> SubSeq(q, open + 1, j - 1)]>>
                                     \o rest.matches,
                       remaining |-> rest.remaining]
             ELSE LET rest == ScanQuoted(q, i + 1)
                  IN  [matches |-> rest.matches, remaining |-> <<q[i]>> \o rest.remaining]

\* s.split(): the maximal runs of non-whitespace characters
RECURSIVE SplitWs(_, _)
SplitWs(s, cur) ==
    IF s = <<>> THEN (IF cur = <<>> THEN <<>> ELSE <<cur>>)
    ELSE IF IsSpaceChar(Head(s))
         THEN (IF cur = <<>> THEN <<>> ELSE <<cur>>) \o SplitWs(Tail(s), <<>>)
         ELSE SplitWs(Tail(s), Append(cur, Head(s)))

\* The loop over quoted_matches (lines 63-69): the terms of one polarity.
QuotedTerms(matches, negative) ==
    LET keep(m) == (m.prefix = "!") = negative
        picked  == SelectSeq(matches, keep)
    IN  [i \in 1..Len(picked) |-> ReplaceAll(picked[i].content, ESCAPED_EXCLAMATION, <<"!">>)]

\* The marker looked for after the escapes are restored
UnquotedIsNegativeRestored(term) ==
    StartsWith(ReplaceAll(term, ESCAPED_EXCLAMATION, <<"!">>), <<"!">>)

\* The branch an unquoted term takes (lines 77-90).
UnquotedIsNegative(term) ==
    ~StartsWith(term, ESCAPED_EXCLAMATION) /\ StartsWith(term, <<"!">>)

UnquotedTerms(terms, negative) ==
    LET keep(t) == UnquotedIsNegative(t) = negative
        picked  == SelectSeq(terms, keep)
    IN  [i \in 1..Len(picked) |->
            ReplaceAll(IF negative THEN Tail(picked[i]) ELSE picked[i],
                       ESCAPED_EXCLAMATION, <<"!">>)]

\* parse_search_query without the replacement of line 53
parse_search_query_unescaped(query) ==
    IF ~Truthy(query) THEN [positive |-> <<>>, negative |-> <<>>]
    ELSE LET scan     == ScanQuoted(query, 1)
             unquoted == SplitWs(scan.remaining, <<>>)
         IN  [positive |-> QuotedTerms(scan.matches, FALSE) \o UnquotedTerms(unquoted, FALSE),
              negative |-> QuotedTerms(scan.matches, TRUE) \o UnquotedTerms(unquoted, TRUE)]

\* parse_search_query(query) -> (positive_terms, negative_terms)
parse_search_query(query) ==
    IF ~Truthy(query) THEN [positive |-> <<>>, negative |-> <<>>]
    ELSE LET q        == ReplaceAll(query, <<"\\", "!">>, ESCAPED_EXCLAMATION)
             scan     == ScanQuoted(q, 1)
             unquoted == SplitWs(scan.remaining, <<>>)
         IN  [positive |-> QuotedTerms(scan.matches, FALSE) \o UnquotedTerms(unquoted, FALSE),
              negative |-> QuotedTerms(scan.matches, TRUE) \o UnquotedTerms(unquoted, TRUE)]

-----------------------------------------------------------------------------
(* Rule records *)

\* re.findall(r'\b\w+\b', msg): the maximal runs of word characters
RECURSIVE Words(_, _)
Words(s, cur) ==
    IF s = <<>> THEN (IF cur = <<>> THEN <<>> ELSE <<cur>>)
    ELSE IF ~IsWordChar(Head(s))
         THEN (IF cur = <<>> THEN <<>> ELSE <<cur>>) \o Words(Tail(s), <<>>)
         ELSE Words(Tail(s), Append(cur, Head(s)))

\* tags = [word.lower() for word in re.findall(r'\b\w+\b', msg) if len(word) > 3]
TagsOf(msg) ==
    IF ~Truthy(msg) THEN <<>>
    ELSE LET long(w) == Len(w) > 3
             ws      == SelectSeq(Words(msg, <<>>), long)
         IN  [i \in 1..Len(ws) |-> Lower(ws[i])]

\* A metadata entry: a string, or a list of strings (_compute_stats tells
\* the two apart with isinstance(value, list)).
MStr(v) == [kind |-> "str", val |-> v]

MList(l) == [kind |-> "list", val |-> l]

\* Python truthiness of rule.metadata.get(key) for a key the rule has
MetaTruthy(m) == m.val # <<>>

\* ", ".join(...) of the elements' repr
RECURSIVE JoinRepr(_)
JoinRepr(l) ==
    IF l = <<>> THEN <<>>
    ELSE <<"'">> \o Head(l) \o <<"'">>
         \o (IF Len(l) > 1 THEN <<",", " ">> ELSE <<>>) \o JoinRepr(Tail(l))

\* str(value) of a metadata entry: the string itself, or the list's repr
MetaStr(m) == IF m.kind = "list" THEN <<"[">> \o JoinRepr(m.val) \o <<"]">> ELSE m.val

\* The SuricataRule a parsed rule line gives (SuricataRuleParser.parse_rule):
\* tags are derived from msg; enrichment has not run yet.
MakeRule(id, action, protocol, msg, classtype, source, category, enabled, rev, metadata, raw) ==
    [id |-> id, action |-> action, protocol |-> protocol, msg |-> msg,
     classtype |-> classtype, source |-> source, category |-> category,
     enabled |-> enabled, rev |-> rev, metadata |-> metadata, raw_rule |-> raw,
     tags |-> TagsOf(msg), llm_summary_available |-> FALSE]

\* x in l for a Python list l
InList(x, l) == \E i \in 1..Len(l) : l[i] = x

Reverse(l) == [i \in 1..Len(l) |-> l[Len(l) + 1 - i]]

-----------------------------------------------------------------------------
(* get_rules: the search stage *)

\* rule.id and term_lower in str(rule.id)
TermInId(rule, term_lower) ==
    rule.id # <<>> /\ rule.id[1] # 0 /\ Contains(IntStr(rule.id[1]), term_lower)

\* term_matches_in_standard_fields looking at the message only
term_matches_in_msg_only(rule, term) ==
    Truthy(rule.msg) /\ Contains(Lower(rule.msg), Lower(term))

term_matches_in_standard_fields(rule, term) ==
    LET term_lower == Lower(term)
    IN  \/ (Truthy(rule.msg) /\ Contains(Lower(rule.msg), term_lower))
        \/ TermInId(rule, term_lower)
        \/ \E i \in 1..Len(rule.tags) : Contains(rule.tags[i], term_lower)

term_matches_in_raw(rule, term) ==
    Truthy(rule.raw_rule) /\ Contains(Lower(rule.raw_rule), Lower(term))

matches_standard_search(rule, positive_terms, negative_terms) ==
    /\ (positive_terms # <<>> =>
            \E i \in 1..Len(positive_terms) :
                term_matches_in_standard_fields(rule, positive_terms[i]))
    /\ (negative_terms # <<>> =>
            ~\E i \in 1..Len(negative_terms) :
                term_matches_in_standard_fields(rule, negative_terms[i]))

matches_raw_search(rule, positive_terms, negative_terms) ==
    /\ (positive_terms # <<>> =>
            \E i \in 1..Len(positive_terms) : term_matches_in_raw(rule, positive_terms[i]))
    /\ (negative_terms # <<>> =>
            ~\E i \in 1..Len(negative_terms) : term_matches_in_raw(rule, negative_terms[i]))

\* matches_search_criteria keeping a rule that matches either search bar
matches_search_criteria_either(rule, search, raw_search) ==
    LET std == LET t == parse_search_query(search)
               IN  matches_standard_search(rule, t.positive, t.negative)
        raw == LET t == parse_search_query(raw_search)
               IN  matches_raw_search(rule, t.positive, t.negative)
    IN  IF Truthy(search) /\ Truthy(raw_search) THEN std \/ raw
        ELSE (Truthy(search) => std) /\ (Truthy(raw_search) => raw)

matches_search_criteria(rule, search, raw_search) ==
    /\ (Truthy(search) =>
            LET t == parse_search_query(search)
            IN  matches_standard_search(rule, t.positive, t.negative))
    /\ (Truthy(raw_search) =>
            LET t == parse_search_query(raw_search)
            IN  matches_raw_search(rule, t.positive, t.negative))

-----------------------------------------------------------------------------
(* get_rules: the field filters *)

\* [x.lower() for x in l]
LowerAll(l) == [i \in 1..Len(l) |-> Lower(l[i])]

\* [x.upper() for x in l]
UpperAll(l) == [i \in 1..Len(l) |-> Upper(l[i])]

Unset == << "(", "u", "n", "s", "e", "t", ")" >>

StrTrue == << "t", "r", "u", "e" >>

\* [e.lower() == 'true' for e in values]
AsBools(values) == [i \in 1..Len(values) |-> Lower(values[i]) = StrTrue]

keep_action(rule, action) == InList(rule.action, action)

keep_protocol(rule, protocol) == InList(rule.protocol, LowerAll(protocol))

keep_classtype(rule, classtype) ==
    \/ (Truthy(rule.classtype) /\ InList(Lower(rule.classtype), LowerAll(classtype)))
    \/ (~Truthy(rule.classtype) /\ InList(Unset, classtype))

keep_sid(rule, sid) == rule.id = sid

keep_source(rule, source) ==
    \/ InList(rule.source, source)
    \/ (~Truthy(rule.source) /\ InList(Unset, source))

keep_category(rule, category) ==
    \/ InList(rule.category, UpperAll(category))
    \/ (~Truthy(rule.category) /\ InList(Unset, category))

keep_enabled(rule, enabled) == InList(rule.enabled, AsBools(enabled))

keep_llm_summary(rule, llm_summary) ==
    InList(rule.llm_summary_available, AsBools(llm_summary))

known_fields ==
    {"page", "page_size", "search", "raw_search", "action", "protocol", "classtype",
     "sid", "source", "category", "enabled", "llm_summary", "sort_by", "sort_order"}

\* metadata_filters / metadata_multi: every query key that is not a declared
\* parameter, with all its values lower-cased
metadata_multi(query_params) ==
    [key \in (DOMAIN query_params) \ known_fields |-> LowerAll(query_params[key])]

matches_metadata_filter(rule, multi) ==
    \A key \in DOMAIN multi :
        LET values         == multi[key]
            present        == key \in DOMAIN rule.metadata
            rule_value     == Lower(IF present THEN MetaStr(rule.metadata[key]) ELSE <<>>)
            has_field      == present /\ MetaTruthy(rule.metadata[key])
            unset_selected == InList(Unset, values)
        IN  \/ (unset_selected /\ ~has_field)
            \/ (has_field /\ InList(rule_value, values))

\* filtered_rules = _rules_cache, without the copy: the published list itself
ListAlias(l) == [items |-> l, is_cache |-> TRUE]

\* filtered_rules = _rules_cache.copy(): a new list object with the same
\* records; is_cache tells whether the object is the published list itself
ListCopy(l) == [items |-> l, is_cache |-> FALSE]

\* The filter stages of lines 335-490, in the order the code runs them
filter_order ==
    << "search", "action", "protocol", "classtype", "sid", "source", "category",
       "enabled", "llm_summary", "metadata" >>

\* The if that guards each stage
supplied(dim, rq) ==
    CASE dim = "search"      -> Truthy(rq.search) \/ Truthy(rq.raw_search)
      [] dim = "action"      -> rq.action # <<>>
      [] dim = "protocol"    -> rq.protocol # <<>>
      [] dim = "classtype"   -> rq.classtype # <<>>
      [] dim = "sid"         -> rq.sid # <<>>
      [] dim = "source"      -> rq.source # <<>>
      [] dim = "category"    -> rq.category # <<>>
      [] dim = "enabled"     -> rq.enabled # <<>>
      [] dim = "llm_summary" -> rq.llm_summary # <<>>
      [] dim = "metadata"    -> DOMAIN metadata_multi(rq.query_params) # {}

\* The condition of each stage's list comprehension
keeps(dim, rule, rq) ==
    CASE dim = "search"      -> matches_search_criteria(rule, rq.search, rq.raw_search)
      [] dim = "action"      -> keep_action(rule, rq.action)
      [] dim = "protocol"    -> keep_protocol(rule, rq.protocol)
      [] dim = "classtype"   -> keep_classtype(rule, rq.classtype)
      [] dim = "sid"         -> keep_sid(rule, rq.sid)
      [] dim = "source"      -> keep_source(rule, rq.source)
      [] dim = "category"    -> keep_category(rule, rq.category)
      [] dim = "enabled"     -> keep_enabled(rule, rq.enabled)
      [] dim = "llm_summary" -> keep_llm_summary(rule, rq.llm_summary)
      [] dim = "metadata"    ->
            matches_metadata_filter(rule, metadata_multi(rq.query_params))

\* Every stage applied, whether its dimension is supplied or not
stage_unconditional(fl, dim, rq) ==
    [items |-> SelectSeq(fl.items, LAMBDA r : keeps(dim, r, rq)), is_cache |-> FALSE]

\* One stage: when its dimension is supplied, filtered_rules is rebound to a
\* new list, the comprehension over the list it named before
stage(fl, dim, rq) ==
    IF supplied(dim, rq)
    THEN [items |-> SelectSeq(fl.items, LAMBDA r : keeps(dim, r, rq)), is_cache |-> FALSE]
    ELSE fl

RECURSIVE run_stages(_, _, _)
run_stages(fl, dims, rq) ==
    IF dims = <<>> THEN fl ELSE run_stages(stage(fl, Head(dims), rq), Tail(dims), rq)

\* Every stage filtering _rules_cache instead of filtered_rules: only the last
\* supplied stage counts
apply_filters_last_stage(cache, rq) ==
    LET sup == SelectSeq(filter_order, LAMBDA d : supplied(d, rq))
    IN  IF sup = <<>> THEN ListCopy(cache) ELSE stage(ListCopy(cache), sup[Len(sup)], rq)

\* Lines 331-490: filtered_rules after the last filter
apply_filters(cache, rq) == run_stages(ListCopy(cache), filter_order, rq)

-----------------------------------------------------------------------------
(* get_rules: sorting, the search logic text, pagination *)

StrKey(v) == [t |-> "str", v |-> v]

IntKey(n) == [t |-> "int", v |-> n]

\* x if x is not None else 0, for an optional integer
OrZero(x) == IF x = <<>> THEN 0 ELSE x[1]

\* The names registered in sort_keys
sort_fields == {"sid", "msg", "action", "enabled", "protocol", "source", "category",
                "classtype", "severity", "rev"}

\* rule.signature_severity: the rule model's field, which the parser fills
\* from the metadata key signature_severity
signature_severity(r) ==
    IF "signature_severity" \in DOMAIN r.metadata /\ r.metadata["signature_severity"].kind = "str"
    THEN r.metadata["signature_severity"].val ELSE None

\* sort_keys[field](r)
sort_key(field, r) ==
    CASE field = "sid"       -> IntKey(OrZero(r.id))
      [] field = "msg"       -> StrKey(Lower(OrEmpty(r.msg)))
      [] field = "action"    -> StrKey(r.action)
      [] field = "enabled"   -> IntKey(IF r.enabled THEN 1 ELSE 0)
      [] field = "protocol"  -> StrKey(Lower(r.protocol))
      [] field = "source"    -> StrKey(Lower(OrEmpty(r.source)))
      [] field = "category"  -> StrKey(Lower(OrEmpty(r.category)))
      [] field = "classtype" -> StrKey(Lower(OrEmpty(r.classtype)))
      [] field = "severity"  -> StrKey(Lower(OrEmpty(signature_severity(r))))
      [] field = "rev"       -> IntKey(OrZero(r.rev))

KeyLess(a, b) == IF a.t = "str" THEN StrLess(a.v, b.v) ELSE a.v < b.v

\* One step of a stable sort: x goes after every element whose key is not
\* greater than its own
RECURSIVE InsertStable(_, _, _)
InsertStable(sorted, x, field) ==
    IF sorted = <<>> THEN <<x>>
    ELSE IF KeyLess(sort_key(field, x), sort_key(field, Head(sorted)))
         THEN <<x>> \o sorted
         ELSE <<Head(sorted)>> \o InsertStable(Tail(sorted), x, field)

RECURSIVE StableSort(_, _)
StableSort(l, field) ==
    IF l = <<>> THEN <<>>
    ELSE InsertStable(StableSort(SubSeq(l, 1, Len(l) - 1), field), l[Len(l)], field)

\* list.sort(key=...) followed by list.reverse() for the descending order
list_sort_then_reverse(l, field, reverse) ==
    IF reverse THEN Reverse(StableSort(l, field)) ELSE StableSort(l, field)

\* list.sort(key=..., reverse=reverse): a stable sort; with reverse the list
\* is reversed, sorted and reversed again, which keeps equal keys in their
\* original order
list_sort(l, field, reverse) ==
    IF reverse THEN Reverse(StableSort(Reverse(l), field)) ELSE StableSort(l, field)

StrDesc == << "d", "e", "s", "c" >>

\* The fallback taking the sort key of "sid"
effective_sort_field_sid(sort_by) == IF sort_by \in sort_fields THEN sort_by ELSE "sid"

\* Lines 492-514: the field the list is sorted by
effective_sort_field(sort_by) == IF sort_by \in sort_fields THEN sort_by ELSE "msg"

\* Lines 492-514: the direction the list is sorted in
effective_reverse(sort_by, sort_order) == Lower(sort_order) = StrDesc

sort_rules(fl, sort_by, sort_order) ==
    [items    |-> list_sort(fl.items, effective_sort_field(sort_by),
                            effective_reverse(sort_by, sort_order)),
     is_cache |-> fl.is_cache]

RECURSIVE Join(_, _)
Join(l, sep) ==
    IF l = <<>> THEN <<>>
    ELSE IF Len(l) = 1 THEN l[1]
    ELSE l[1] \o sep \o Join(Tail(l), sep)

Quoted(term) == <<"\"">> \o term \o <<"\"">>

NotQuoted(term) == <<"N", "O", "T", " ">> \o Quoted(term)

StrOr == << " ", "O", "R", " " >>

StrAnd == << " ", "A", "N", "D", " " >>

\* format_search_logic putting every group of two or more positive terms in
\* parentheses
format_search_logic_always_parens(positive_terms, negative_terms) ==
    IF positive_terms = <<>> /\ negative_terms = <<>> THEN <<>>
    ELSE LET joined       == Join([i \in 1..Len(positive_terms) |-> Quoted(positive_terms[i])], StrOr)
             positive_str == IF Len(positive_terms) > 1
                             THEN <<"(">> \o joined \o <<")">> ELSE joined
             parts        == IF positive_terms # <<>> THEN <<positive_str>> ELSE <<>>
         IN  IF negative_terms # <<>>
             THEN Join(parts \o [i \in 1..Len(negative_terms) |-> NotQuoted(negative_terms[i])], StrAnd)
             ELSE parts[1]

format_search_logic(positive_terms, negative_terms) ==
    IF positive_terms = <<>> /\ negative_terms = <<>> THEN <<>>
    ELSE LET joined       == Join([i \in 1..Len(positive_terms) |-> Quoted(positive_terms[i])], StrOr)
             positive_str == IF Len(positive_terms) > 1 /\ negative_terms # <<>>
                             THEN <<"(">> \o joined \o <<")">> ELSE joined
             parts        == IF positive_terms # <<>> THEN <<positive_str>> ELSE <<>>
         IN  IF negative_terms # <<>>
             THEN Join(parts \o [i \in 1..Len(negative_terms) |-> NotQuoted(negative_terms[i])], StrAnd)
             ELSE parts[1]

StrStandard == << "S", "t", "a", "n", "d", "a", "r", "d", ":", " " >>

StrRawText == << "R", "a", "w", " ", "T", "e", "x", "t", ":", " " >>

Parens(part) == <<"(">> \o part \o <<")">>

\* Lines 516-538
search_logic(search, raw_search) ==
    LET part(text, label) ==
            LET t == parse_search_query(text)
            IN  IF Truthy(text) /\ (t.positive # <<>> \/ t.negative # <<>>)
                THEN <<label \o format_search_logic(t.positive, t.negative)>>
                ELSE <<>>
        parts == part(search, StrStandard) \o part(raw_search, StrRawText)
    IN  IF parts = <<>> THEN None
        ELSE IF Len(parts) = 1 THEN parts[1]
        ELSE Join([i \in 1..Len(parts) |-> Parens(parts[i])], StrAnd)

\* A slice that takes the element at end_idx too
SliceThroughEnd(l, start_idx, end_idx) ==
    IF start_idx >= Len(l) THEN <<>>
    ELSE SubSeq(l, start_idx + 1, IF end_idx + 1 > Len(l) THEN Len(l) ELSE end_idx + 1)

\* l[start_idx:end_idx] for 0 <= start_idx <= end_idx
Slice(l, start_idx, end_idx) ==
    IF start_idx >= Len(l) THEN <<>>
    ELSE SubSeq(l, start_idx + 1, IF end_idx > Len(l) THEN Len(l) ELSE end_idx)

\* paginate taking page as an index from 0
paginate_from_zero(filtered_rules, page, page_size) ==
    LET start_idx == page * page_size
        end_idx   == start_idx + page_size
    IN  [total |-> Len(filtered_rules), rules |-> Slice(filtered_rules, start_idx, end_idx)]

\* Lines 540-551
paginate(filtered_rules, page, page_size) ==
    LET start_idx == (page - 1) * page_size
        end_idx   == start_idx + page_size
    IN  [total |-> Len(filtered_rules), rules |-> Slice(filtered_rules, start_idx, end_idx)]

\* The handler's body once the rules are loaded: the response, and the
\* published list as the call leaves it (the sort is in place, on the list
\* object filtered_rules names)
get_rules(cache, rq) ==
    LET fl     == apply_filters(cache, rq)
        sorted == sort_rules(fl, rq.sort_by, rq.sort_order)
        pg     == paginate(sorted.items, rq.page, rq.page_size)
    IN  [response |-> [total |-> pg.total, rules |-> pg.rules, page |-> rq.page,
                       page_size |-> rq.page_size,
                       search_logic |-> search_logic(rq.search, rq.raw_search)],
         unsorted |-> fl.items,
         filtered |-> sorted.items,
         cache    |-> IF sorted.is_cache THEN sorted.items ELSE cache]

-----------------------------------------------------------------------------
(* _compute_stats *)

StrFalse == << "f", "a", "l", "s", "e" >>

\* table[key] = table.get(key, 0) + 1
Incr(table, key) ==
    IF key \in DOMAIN table THEN [table EXCEPT ![key] = @ + 1]
    ELSE [k \in (DOMAIN table) \cup {key} |-> IF k = key THEN 1 ELSE table[k]]

EmptyTable == [k \in {} |-> 0]

\* The value itself as the bucket key, absent or not
OrNothing(v) == v

OrUnset(v) == IF Truthy(v) THEN v ELSE Unset

BoolStr(b) == IF b THEN StrTrue ELSE StrFalse

\* The bucket of one rule in one of the fixed tables (lines 584-608)
stats_key(dim, rule) ==
    CASE dim = "actions"        -> rule.action
      [] dim = "protocols"      -> rule.protocol
      [] dim = "classtypes"     -> OrUnset(rule.classtype)
      [] dim = "sources"        -> OrUnset(rule.source)
      [] dim = "categories"     -> OrUnset(rule.category)
      [] dim = "enabled_status" -> BoolStr(rule.enabled)
      [] dim = "llm_status"     -> BoolStr(rule.llm_summary_available)

\* The loop of lines 583-608 for one fixed table
RECURSIVE count_dim(_, _, _)
count_dim(rules, dim, table) ==
    IF rules = <<>> THEN table
    ELSE count_dim(Tail(rules), dim, Incr(table, stats_key(dim, Head(rules))))

RECURSIVE incr_all(_, _)
incr_all(table, items) ==
    IF items = <<>> THEN table ELSE incr_all(Incr(table, Head(items)), Tail(items))

\* Lines 610-616 for one metadata key: a list adds one count per element
RECURSIVE count_metadata(_, _, _)
count_metadata(rules, key, table) ==
    IF rules = <<>> THEN table
    ELSE LET md == Head(rules).metadata
             t  == IF key \notin DOMAIN md THEN table
                   ELSE IF md[key].kind = "list" THEN incr_all(table, md[key].val)
                   ELSE Incr(table, md[key].val)
         IN  count_metadata(Tail(rules), key, t)

\* The rules without the key only
unset_count_missing_key(rules, key) ==
    Cardinality({i \in 1..Len(rules) : key \notin DOMAIN rules[i].metadata})

\* Lines 618-622: the rules without the key, or with a falsy value under it
unset_count(rules, key) ==
    Cardinality({i \in 1..Len(rules) :
        key \notin DOMAIN rules[i].metadata \/ ~MetaTruthy(rules[i].metadata[key])})

metadata_table(rules, key) ==
    LET counted == count_metadata(rules, key, EmptyTable)
        n       == unset_count(rules, key)
    IN  IF n > 0
        THEN [k \in (DOMAIN counted) \cup {Unset} |-> IF k = Unset THEN n ELSE counted[k]]
        ELSE counted

metadata_keys(rules) == UNION {DOMAIN rules[i].metadata : i \in 1..Len(rules)}

\* The value _compute_stats stores in _stats_cache
compute_stats(rules) ==
    [total_rules    |-> Len(rules),
     actions        |-> count_dim(rules, "actions", EmptyTable),
     protocols      |-> count_dim(rules, "protocols", EmptyTable),
     classtypes     |-> count_dim(rules, "classtypes", EmptyTable),
     sources        |-> count_dim(rules, "sources", EmptyTable),
     categories     |-> count_dim(rules, "categories", EmptyTable),
     enabled_status |-> count_dim(rules, "enabled_status", EmptyTable),
     llm_status     |-> count_dim(rules, "llm_status", EmptyTable),
     metadata       |-> [key \in metadata_keys(rules) |-> metadata_table(rules, key)]]

\* _stats_cache = None
NoStats == <<>>

-----------------------------------------------------------------------------
(* load_llm_summaries, load_rules, reload_rules *)

\* load_llm_summaries: docs is what ids-docs.json holds. A missing file
\* leaves _llm_summaries alone; a readable file adds its entries to it; an
\* error while reading empties it.
load_llm_summaries(summaries, docs) ==
    CASE docs.kind = "missing" -> summaries
      [] docs.kind = "ok"      -> summaries \cup docs.sids
      [] docs.kind = "error"   -> {}

\* Lines 242-253: the enrichment of one rule
enrich(rule, summaries) ==
    IF rule.id # <<>> /\ rule.id[1] # 0 /\ rule.id[1] \in summaries
    THEN [rule EXCEPT !.llm_summary_available = TRUE]
    ELSE rule

\* The enrichment loop over _rules_cache
enrich_all(rules, summaries) == [i \in 1..Len(rules) |-> enrich(rules[i], summaries)]

\* load_rules with _compute_stats() called before the enrichment loop
load_rules_stats_first(g, all_rules, docs) ==
    IF g.rules_loaded THEN g
    ELSE LET summaries == load_llm_summaries(g.llm_summaries, docs)
         IN  [rules_cache   |-> enrich_all(all_rules, summaries),
              rules_loaded  |-> TRUE,
              stats_cache   |-> <<compute_stats(all_rules)>>,
              llm_summaries |-> summaries]

\* load_rules, given what parsing the sources yields (all_rules) and what
\* ids-docs.json holds (docs): the globals as the call leaves them
load_rules(g, all_rules, docs) ==
    IF g.rules_loaded THEN g
    ELSE LET summaries == load_llm_summaries(g.llm_summaries, docs)
             enriched  == enrich_all(all_rules, summaries)
         IN  [rules_cache   |-> enriched,
              rules_loaded  |-> TRUE,
              stats_cache   |-> <<compute_stats(enriched)>>,
              llm_summaries |-> summaries]

\* Lines 652-654 of reload_rules: the globals before load_rules is called
reload_reset(g) ==
    [g EXCEPT !.rules_cache = <<>>, !.rules_loaded = FALSE, !.stats_cache = NoStats]

\* reload_rules that resets the globals and leaves the load to the next request
reload_rules_lazy(g, all_rules, docs) == reload_reset(g)

\* reload_rules: the globals as the handler leaves them
reload_rules(g, all_rules, docs) == load_rules(reload_reset(g), all_rules, docs)

-----------------------------------------------------------------------------
(* CriteriaEvaluator *)

\* Tagged Python values: a field value or a criterion value
VNone == [t |-> "none"]

VStr(v) == [t |-> "str", v |-> v]

VInt(n) == [t |-> "int", v |-> n]

VBool(b) == [t |-> "bool", v |-> b]

VList(l) == [t |-> "list", v |-> l]

\* An int beyond the range of a double: 10**400
VHugeInt == [t |-> "hugeint"]

\* A RuleAction member: a str subclass whose str() is the member's name
VEnum(v) == [t |-> "enum", v |-> v]

\* An unset Optional[str] read as the empty string
OptStrOrEmpty(v) == IF v = None THEN VStr(<<>>) ELSE VStr(v)

OptStr(v) == IF v = None THEN VNone ELSE VStr(v)

OptInt(x) == IF x = <<>> THEN VNone ELSE VInt(x[1])

\* The rule attributes getattr(rule, field, None) finds
rule_attributes == {"id", "action", "protocol", "msg", "classtype", "source", "category",
                    "enabled", "rev", "raw_rule", "tags", "llm_summary_available"}

get_attribute(rule, name) ==
    CASE name = "id"        -> OptInt(rule.id)
      [] name = "rev"       -> OptInt(rule.rev)
      [] name = "action"    -> VEnum(rule.action)
      [] name = "protocol"  -> VStr(rule.protocol)
      [] name = "msg"       -> OptStr(rule.msg)
      [] name = "classtype" -> OptStr(rule.classtype)
      [] name = "source"    -> OptStr(rule.source)
      [] name = "category"  -> OptStr(rule.category)
      [] name = "raw_rule"  -> VStr(rule.raw_rule)
      [] name = "enabled"   -> VBool(rule.enabled)
      [] name = "llm_summary_available" -> VBool(rule.llm_summary_available)
      [] name = "tags"      -> VList(rule.tags)
      [] OTHER              -> VNone

\* get_field_value giving None for an empty metadata value as well
get_field_value_or_none(rule, field) ==
    IF Len(field) > 1
    THEN IF field[1] = "metadata" /\ DOMAIN rule.metadata # {}
              /\ field[2] \in DOMAIN rule.metadata
              /\ rule.metadata[field[2]].val # <<>>
         THEN (IF rule.metadata[field[2]].kind = "list"
               THEN VList(rule.metadata[field[2]].val)
               ELSE VStr(rule.metadata[field[2]].val))
         ELSE VNone
    ELSE get_attribute(rule, field[1])

\* get_field_value: field is field.split('.', 1), one name or two
get_field_value(rule, field) ==
    IF Len(field) > 1
    THEN IF field[1] = "metadata" /\ DOMAIN rule.metadata # {}
              /\ field[2] \in DOMAIN rule.metadata
         THEN (IF rule.metadata[field[2]].kind = "list"
               THEN VList(rule.metadata[field[2]].val)
               ELSE VStr(rule.metadata[field[2]].val))
         ELSE VNone
    ELSE get_attribute(rule, field[1])

StrNone == << "N", "o", "n", "e" >>

\* The number of zeros of the integer 10**400 the comparisons are tried with
HugeIntZeros == 400

StrRuleAction == << "R", "u", "l", "e", "A", "c", "t", "i", "o", "n", "." >>

\* str(x) of a tagged value
PyStr(x) ==
    CASE x.t = "str"  -> x.v
      [] x.t = "int"  -> IntStr(x.v)
      [] x.t = "bool" -> (IF x.v THEN <<"T", "r", "u", "e">> ELSE <<"F", "a", "l", "s", "e">>)
      [] x.t = "enum" -> StrRuleAction \o Upper(x.v)
      [] x.t = "list" -> <<"[">> \o JoinRepr(x.v) \o <<"]">>
      [] x.t = "none" -> StrNone
      [] x.t = "hugeint" -> <<"1">> \o [i \in 1..HugeIntZeros |-> "0"]

\* isinstance(x, str): RuleAction is a str subclass
IsStr(x) == x.t = "str" \/ x.t = "enum"

AllDigits(v) == v # <<>> /\ \A i \in 1..Len(v) : IsDigitChar(v[i])

RECURSIVE DigitsValue(_)
DigitsValue(v) ==
    IF v = <<>> THEN 0 ELSE 10 * DigitsValue(SubSeq(v, 1, Len(v) - 1)) + (Ord(v[Len(v)]) - 48)

\* float(x): <<the number>>, or <<>> when float() raises ValueError or
\* TypeError. Numeric text is modelled for unsigned decimal integers.
ToFloat(x) ==
    CASE x.t = "int"  -> <<x.v>>
      [] x.t = "bool" -> <<IF x.v THEN 1 ELSE 0>>
      [] x.t = "str"  -> (IF AllDigits(x.v) THEN <<DigitsValue(x.v)>> ELSE <<>>)
      [] OTHER        -> <<>>

RegexMeta == {"(", ")", "[", "]", "*", "+", "?", "{", "}", "|", "^", "$", ".", "\\"}

\* re.search(pattern, text, flags) for a pattern of literal characters:
\* <<found>>; <<>> stands for re.error. A pattern that opens a group or a
\* character set and never closes it, or starts with a repetition, is invalid.
regex_search(pattern, text, ignorecase) ==
    IF \/ (pattern # <<>> /\ Head(pattern) \in {"*", "+", "?"})
       \/ (\E i \in 1..Len(pattern) : pattern[i] = "("
              /\ ~\E j \in (i + 1)..Len(pattern) : pattern[j] = ")")
       \/ (\E i \in 1..Len(pattern) : pattern[i] = "["
              /\ ~\E j \in (i + 1)..Len(pattern) : pattern[j] = "]")
    THEN <<>>
    ELSE IF ignorecase THEN <<Contains(Lower(text), Lower(pattern))>>
    ELSE <<Contains(text, pattern)>>

\* Lines 62-72: field_str and compare_value after the case handling
fold_field(field_value, case_sensitive) ==
    IF ~case_sensitive /\ IsStr(field_value) THEN Lower(PyStr(field_value))
    ELSE PyStr(field_value)

fold_value(field_value, value, case_sensitive) ==
    IF ~case_sensitive /\ IsStr(field_value)
    THEN (CASE value.t = "str"  -> VStr(Lower(value.v))
            [] value.t = "list" -> VList(LowerAll(value.v))
            [] OTHER            -> value)
    ELSE value

evaluate_criteria(rule, criteria) ==
    LET field_value   == get_field_value(rule, criteria.field)
        op            == criteria.operator
        field_str     == fold_field(field_value, criteria.case_sensitive)
        compare_value == fold_value(field_value, criteria.value, criteria.case_sensitive)
    IN  IF op = "exists" THEN field_value.t # "none"
        ELSE IF op = "not_exists" THEN field_value.t = "none"
        ELSE IF field_value.t = "none" THEN FALSE
        ELSE CASE op = "exact_match" -> field_str = PyStr(compare_value)
               [] op = "contains" ->
                    compare_value.t = "str" /\ Contains(field_str, compare_value.v)
               [] op = "regex" ->
                    /\ compare_value.t = "str"
                    /\ LET m == regex_search(compare_value.v, field_str,
                                             ~criteria.case_sensitive)
                       IN  m # <<>> /\ m[1]
               [] op = "in_list" ->
                    compare_value.t = "list" /\ InList(field_str, compare_value.v)
               [] op = "not_in_list" ->
                    compare_value.t = "list" /\ ~InList(field_str, compare_value.v)
               [] op = "greater_than" ->
                    LET a == ToFloat(field_value)
                        b == ToFloat(compare_value)
                    IN  a # <<>> /\ b # <<>> /\ a[1] > b[1]
               [] op = "less_than" ->
                    LET a == ToFloat(field_value)
                        b == ToFloat(compare_value)
                    IN  a # <<>> /\ b # <<>> /\ a[1] < b[1]
               [] OTHER -> FALSE

\* The exception float(field_value) > float(compare_value) lets through
\* lines 104-114, which catch ValueError and TypeError: float() of an int
\* beyond the range of a double raises OverflowError. The left side is
\* converted first; when it raises what is caught, the right is not reached.
float_raises(field_value, compare_value) ==
    IF field_value.t = "hugeint" THEN "OverflowError"
    ELSE IF ToFloat(field_value) = <<>> THEN "none"
    ELSE IF compare_value.t = "hugeint" THEN "OverflowError"
    ELSE "none"

\* sre's MAXREPEAT, 4294967295, as decimal text
S_MAXREPEAT == << "4", "2", "9", "4", "9", "6", "7", "2", "9", "5" >>

RECURSIVE StripZeros(_)
StripZeros(digits) ==
    IF Len(digits) > 1 /\ Head(digits) = "0" THEN StripZeros(Tail(digits)) ELSE digits

\* The repetition counts {n} written in the pattern
RepeatCounts(pattern) ==
    {SubSeq(pattern, p[1] + 1, p[2] - 1) :
        p \in {x \in (1..Len(pattern)) \X (1..Len(pattern)) :
                  /\ x[1] + 1 < x[2]
                  /\ pattern[x[1]] = "{" /\ pattern[x[2]] = "}"
                  /\ \A k \in (x[1] + 1)..(x[2] - 1) : IsDigitChar(pattern[k])}}

\* int(lo) >= MAXREPEAT
RepeatTooLarge(digits) ==
    LET d == StripZeros(digits)
    IN  Len(d) > Len(S_MAXREPEAT) \/ (Len(d) = Len(S_MAXREPEAT) /\ ~StrLess(d, S_MAXREPEAT))

\* The exception re.search lets through that is no re.error: the parser of
\* the pattern raises OverflowError for a repetition count of MAXREPEAT or
\* more. "none" when it raises nothing or re.error.
regex_raises(pattern) ==
    IF regex_search(pattern, <<>>, FALSE) # <<>>
       /\ \E digits \in RepeatCounts(pattern) : RepeatTooLarge(digits)
    THEN "OverflowError" ELSE "none"

\* The exception that leaves evaluate_criteria: lines 84-92 catch re.error
\* only. "none" when it returns; evaluate_criteria is its result then.
evaluate_criteria_raises(rule, criteria) ==
    LET field_value   == get_field_value(rule, criteria.field)
        op            == criteria.operator
        compare_value == fold_value(field_value, criteria.value, criteria.case_sensitive)
    IN  IF op \in {"exists", "not_exists"} \/ field_value.t = "none" THEN "none"
        ELSE IF op = "regex" /\ compare_value.t = "str" THEN regex_raises(compare_value.v)
        ELSE IF op \in {"greater_than", "less_than"}
             THEN float_raises(field_value, compare_value)
        ELSE "none"

-----------------------------------------------------------------------------
(* TransformEngine.preview_transform *)

StrUnknown == << "(", "u", "n", "k", "n", "o", "w", "n", ")" >>

StrNoMessage == << "(", "n", "o", " ", "m", "e", "s", "s", "a", "g", "e", ")" >>

MaxExamples == 10

\* criteria: Union[TransformCriteria, List[TransformCriteria]]
OneCriterion(c) == [is_list |-> FALSE, value |-> c]

ListOfCriteria(l) == [is_list |-> TRUE, value |-> l]

\* Line 35: transform.criteria if it is a list, else [transform.criteria]
transform_criteria(transform) ==
    IF transform.criteria.is_list THEN transform.criteria.value
    ELSE <<transform.criteria.value>>

\* any(...) in the place of all(...) in line 39
matches_transform_any(rule, criteria_list) ==
    \E i \in 1..Len(criteria_list) : evaluate_criteria(rule, criteria_list[i])

\* all(evaluate_criteria(rule, c) for c in criteria_list)
matches_transform(rule, criteria_list) ==
    \A i \in 1..Len(criteria_list) : evaluate_criteria(rule, criteria_list[i])

\* A breakdown table that marks a key instead of counting it
RECURSIVE count_breakdown_marks(_, _, _)
count_breakdown_marks(matched, dim, table) ==
    IF matched = <<>> THEN table
    ELSE LET r   == Head(matched)
             key == CASE dim = "source"   -> (IF Truthy(r.source) THEN r.source ELSE StrUnknown)
                      [] dim = "category" -> OrUnset(r.category)
                      [] dim = "action"   -> r.action
         IN  count_breakdown_marks(Tail(matched), dim,
                 [k \in (DOMAIN table) \cup {key} |-> 1])

\* Lines 37-50 for one breakdown table
RECURSIVE count_breakdown(_, _, _)
count_breakdown(matched, dim, table) ==
    IF matched = <<>> THEN table
    ELSE LET r   == Head(matched)
             key == CASE dim = "source"   -> (IF Truthy(r.source) THEN r.source ELSE StrUnknown)
                      [] dim = "category" -> OrUnset(r.category)
                      [] dim = "action"   -> r.action
         IN  count_breakdown(Tail(matched), dim, Incr(table, key))

\* RuleMatch(...) without the actions of the transform
rule_match_without_actions(rule, transform) ==
    [sid |-> OrZero(rule.id),
     msg |-> IF Truthy(rule.msg) THEN rule.msg ELSE StrNoMessage,
     source |-> rule.source, category |-> rule.category,
     actions_to_apply |-> <<>>]

\* RuleMatch(...) of lines 55-61
rule_match(rule, transform) ==
    [sid |-> OrZero(rule.id),
     msg |-> IF Truthy(rule.msg) THEN rule.msg ELSE StrNoMessage,
     source |-> rule.source, category |-> rule.category,
     actions_to_apply |-> transform.actions]

\* The exception that leaves preview_transform: all() stops at the first
\* criterion that is false, so a criterion raises for a rule when the
\* criteria before it are true for that rule. "none" when the result is
\* returned.
preview_transform_raises(rules, transform) ==
    LET cl == transform_criteria(transform)
        raising(r, k) ==
            /\ evaluate_criteria_raises(r, cl[k]) # "none"
            /\ \A j \in 1..(k - 1) :
                   /\ evaluate_criteria_raises(r, cl[j]) = "none"
                   /\ evaluate_criteria(r, cl[j])
    IN  IF \E i \in 1..Len(rules), k \in 1..Len(cl) : raising(rules[i], k)
        THEN "OverflowError" ELSE "none"

preview_transform(rules, transform) ==
    LET hit(r)  == matches_transform(r, transform_criteria(transform))
        matched == SelectSeq(rules, hit)
        first   == SubSeq(matched, 1, IF Len(matched) < MaxExamples THEN Len(matched)
                                      ELSE MaxExamples)
    IN  [transform_id          |-> transform.id,
         transform_name        |-> transform.name,
         total_matched         |-> Len(matched),
         total_rules           |-> Len(rules),
         breakdown_by_source   |-> count_breakdown(matched, "source", EmptyTable),
         breakdown_by_category |-> count_breakdown(matched, "category", EmptyTable),
         breakdown_by_action   |-> count_breakdown(matched, "action", EmptyTable),
         example_matches       |-> [i \in 1..Len(first) |-> rule_match(first[i], transform)]]

-----------------------------------------------------------------------------
(* The rule files and requests the model is run on *)

\* Text used in the rules and requests below
S_alert == << "a", "l", "e", "r", "t" >>

S_drop == << "d", "r", "o", "p" >>

S_tcp == << "t", "c", "p" >>

S_udp == << "u", "d", "p" >>

S_asc == << "a", "s", "c" >>

S_desc == << "d", "e", "s", "c" >>

S_et_open == << "e", "t", "-", "o", "p", "e", "n" >>

S_stamus == << "s", "t", "a", "m", "u", "s" >>

S_trojan == << "t", "r", "o", "j", "a", "n" >>

S_Scan == << "S", "c", "a", "n" >>

S_MALWARE == << "M", "A", "L", "W", "A", "R", "E" >>

S_INFO == << "I", "N", "F", "O" >>

S_Major == << "M", "a", "j", "o", "r" >>

S_Minor == << "M", "i", "n", "o", "r" >>

S_msg_evil == << "E", "T", " ", "M", "A", "L", "W", "A", "R", "E", " ", "E", "v", "i", "l" >>

S_msg_ping == << "E", "T", " ", "I", "N", "F", "O", " ", "P", "i", "n", "g", " ", "1", "2" >>

S_msg_evil2 == << "e", "t", " ", "m", "a", "l", "w", "a", "r", "e", " ", "e", "v", "i", "l" >>

S_raw_evil ==
    << "a", "l", "e", "r", "t", " ", "t", "c", "p", " ", "(", "m", "s", "g", ":", "\"",
       "E", "T", " ", "M", "A", "L", "W", "A", "R", "E", " ", "E", "v", "i", "l", "\"",
       ";", " ", "s", "i", "d", ":", "1", "1", ";", ")" >>

S_raw_ping ==
    << "d", "r", "o", "p", " ", "u", "d", "p", " ", "(", "m", "s", "g", ":", "\"", "E",
       "T", " ", "I", "N", "F", "O", " ", "P", "i", "n", "g", " ", "1", "2", "\"", ";",
       " ", "s", "i", "d", ":", "1", "2", ";", ")" >>

S_raw_nomsg ==
    << "a", "l", "e", "r", "t", " ", "t", "c", "p", " ", "(", "f", "l", "o", "w", ":",
       "x", ";", ")" >>

S_raw_evil2 ==
    << "a", "l", "e", "r", "t", " ", "u", "d", "p", " ", "(", "m", "s", "g", ":", "\"",
       "e", "t", " ", "m", "a", "l", "w", "a", "r", "e", " ", "e", "v", "i", "l", "\"",
       ";", " ", "s", "i", "d", ":", "1", "3", ";", ")" >>

NoParams == [k \in {} |-> <<>>]

NoMetadata == [k \in {} |-> MStr(<<>>)]

\* Rules as SuricataRuleParser.parse_rule returns them
RuleEvil ==
    MakeRule(<<11>>, S_alert, S_tcp, S_msg_evil, S_trojan, S_et_open, S_MALWARE, TRUE, <<3>>,
             [k \in {"signature_severity"} |-> MStr(S_Major)], S_raw_evil)

RulePing ==
    MakeRule(<<12>>, S_drop, S_udp, S_msg_ping, None, None, S_INFO, FALSE, <<>>,
             [k \in {"signature_severity"} |-> MStr(<<>>)], S_raw_ping)

RuleNoMsg ==
    MakeRule(<<>>, S_alert, S_tcp, <<>>, S_Scan, S_stamus, None, TRUE, <<1>>,
             NoMetadata, S_raw_nomsg)

RuleEvil2 ==
    MakeRule(<<13>>, S_alert, S_udp, S_msg_evil2, S_trojan, S_stamus, S_MALWARE, TRUE, <<>>,
             [k \in {"signature_severity"} |-> MStr(S_Minor)], S_raw_evil2)

\* The longest rule list the sources hold
MaxRules == 2

RECURSIVE SeqsUpTo(_, _)
SeqsUpTo(S, n) ==
    IF n = 0 THEN {<<>>}
    ELSE LET shorter == SeqsUpTo(S, n - 1)
         IN  shorter \cup {Append(l, x) : l \in {m \in shorter : Len(m) = n - 1}, x \in S}

\* What parsing the enabled sources can yield
ParsedRules == {RuleEvil, RulePing, RuleNoMsg}

ParsedLists == SeqsUpTo(ParsedRules, MaxRules)

\* What ids-docs.json can hold
DocsChoices ==
    {[kind |-> "missing", sids |-> {}], [kind |-> "error", sids |-> {}],
     [kind |-> "ok", sids |-> {11}], [kind |-> "ok", sids |-> {12}]}

Environments == {[all_rules |-> l, docs |-> d] : l \in ParsedLists, d \in DocsChoices}

\* A request with every parameter at its default
DefaultRequest ==
    [page |-> 1, page_size |-> 50, search |-> None, raw_search |-> None,
     action |-> <<>>, protocol |-> <<>>, classtype |-> <<>>, sid |-> <<>>,
     source |-> <<>>, category |-> <<>>, enabled |-> <<>>, llm_summary |-> <<>>,
     sort_by |-> "msg", sort_order |-> S_asc, query_params |-> NoParams]

Criterion(field, operator, value, case_sensitive) ==
    [field |-> field, operator |-> operator, value |-> value,
     case_sensitive |-> case_sensitive]

\* Stored transforms a dry-run can be asked for
Transforms ==
    {[id |-> "t1", name |-> "trojans", actions |-> <<"add_tag">>,
      criteria |-> OneCriterion(Criterion(<<"classtype">>, "exact_match", VStr(S_trojan), FALSE))],
     [id |-> "t2", name |-> "enabled major", actions |-> <<"update_priority">>,
      criteria |-> ListOfCriteria(
                     <<Criterion(<<"enabled">>, "exists", VNone, FALSE),
                       Criterion(<<"metadata", "signature_severity">>, "contains",
                                 VStr(S_Major), FALSE)>>)]}

\* The queries the handlers of the state machine are run with
Requests ==
    {DefaultRequest,
     [DefaultRequest EXCEPT !.sort_by = "sid", !.sort_order = S_desc],
     [DefaultRequest EXCEPT !.search = S_MALWARE, !.page_size = 1],
     [DefaultRequest EXCEPT !.llm_summary = <<StrTrue>>, !.sort_by = "enabled"]}

Sids == {11, 12, 99}

-----------------------------------------------------------------------------
(* TransformRepository: the transforms kept as JSON files in storage_dir *)

\* storage_dir with no file in it
NoFiles == [p \in {} |-> <<>>]

\* The components of the relative path s, as pathlib keeps them: split at
\* '/', the empty ones and the '.' ones dropped
RECURSIVE path_parts(_, _)
path_parts(s, part) ==
    LET kept == IF part = <<>> \/ part = <<".">> THEN <<>> ELSE <<part>>
    IN  IF s = <<>> THEN kept
        ELSE IF Head(s) = "/" THEN kept \o path_parts(Tail(s), <<>>)
        ELSE path_parts(Tail(s), Append(part, Head(s)))

S_dot_json == << ".", "j", "s", "o", "n" >>

\* _get_file_path: storage_dir / f"{transform_id}.json", relative to storage_dir
get_file_path(transform_id) == path_parts(transform_id \o S_dot_json, <<>>)

\* open(file_path, 'w') with json.dump: the file holds the transform
write_file(files, file_path, transform) ==
    [p \in (DOMAIN files) \cup {file_path} |->
        IF p = file_path THEN transform ELSE files[p]]

S_transform_ == << "t", "r", "a", "n", "s", "f", "o", "r", "m", "-" >>

\* create; uuid8 is uuid.uuid4().hex[:8] and now is datetime.now()
create(files, transform, uuid8, now) ==
    LET id     == IF ~Truthy(transform.id) THEN S_transform_ \o uuid8 ELSE transform.id
        stored == [transform EXCEPT !.id = id, !.created_at = <<now>>, !.updated_at = <<now>>]
    IN  [files    |-> write_file(files, get_file_path(id), stored),
         returned |-> id]

\* read: <<>> for None, else <<TransformRule(**data)>> of the file's data
read(files, transform_id) ==
    LET file_path == get_file_path(transform_id)
    IN  IF file_path \notin DOMAIN files THEN <<>> ELSE <<files[file_path]>>

\* update
update(files, transform_id, transform, now) ==
    LET file_path == get_file_path(transform_id)
        existing  == read(files, transform_id)
        saved     == IF existing # <<>>
                     THEN [transform EXCEPT !.id = transform_id,
                                            !.created_at = existing[1].created_at,
                                            !.updated_at = <<now>>]
                     ELSE transform
    IN  IF file_path \notin DOMAIN files THEN [files |-> files, returned |-> FALSE]
        ELSE [files |-> write_file(files, file_path, saved), returned |-> TRUE]

\* delete
delete(files, transform_id) ==
    LET file_path == get_file_path(transform_id)
    IN  IF file_path \notin DOMAIN files THEN [files |-> files, returned |-> FALSE]
        ELSE [files    |-> [p \in (DOMAIN files) \ {file_path} |-> files[p]],
              returned |-> TRUE]

-----------------------------------------------------------------------------
(* The handlers *)

Globals ==
    [rules_cache |-> rules_cache, rules_loaded |-> rules_loaded,
     stats_cache |-> stats_cache, llm_summaries |-> llm_summaries]

SetGlobals(g) ==
    /\ rules_cache' = g.rules_cache
    /\ rules_loaded' = g.rules_loaded
    /\ stats_cache' = g.stats_cache
    /\ llm_summaries' = g.llm_summaries

\* What a handler read from the globals when it went to work on them
Seen(g) == [rules |-> g.rules_cache, loaded |-> g.rules_loaded, stats |-> g.stats_cache]

\* if not _rules_loaded: load_rules(), with what the sources hold then
LazyEnvironments == IF rules_loaded THEN {[all_rules |-> <<>>, docs |-> [kind |-> "missing", sids |-> {}]]}
                    ELSE Environments

ensure_loaded(g, env) == IF ~g.rules_loaded THEN load_rules(g, env.all_rules, env.docs) ELSE g

Init ==
    /\ rules_cache = <<>>
    /\ rules_loaded = FALSE
    /\ stats_cache = NoStats
    /\ llm_summaries = {}
    /\ started = FALSE
    /\ transform_files = NoFiles
    /\ req = [op |-> "none"]
    /\ resp = [op |-> "none"]

\* lifespan: rules.load_rules() before the first request is served, with
\* what the sources hold then
StartupFrom(envs) ==
    /\ ~started
    /\ \E env \in envs :
           SetGlobals(load_rules(Globals, env.all_rules, env.docs))
    /\ started' = TRUE
    /\ UNCHANGED transform_files
    /\ req' = [op |-> "startup"]
    /\ resp' = [op |-> "startup"]

Startup == StartupFrom(Environments)

\* POST /reload
ReloadRules ==
    /\ started
    /\ \E env \in Environments :
           LET g == reload_rules(Globals, env.all_rules, env.docs)
           IN  /\ SetGlobals(g)
               /\ resp' = [op |-> "reload", reloaded |-> Len(g.rules_cache)]
               /\ req' = [op |-> "reload", docs |-> env.docs]
    /\ UNCHANGED <<started, transform_files>>

\* GET /rules, for the requests rqs; the answer is recorded with the list as
\* the filters left it (unsorted) and as the sort left it (filtered)
GetRulesWith(rqs) ==
    /\ started
    /\ \E rq \in rqs, env \in LazyEnvironments :
           LET g   == ensure_loaded(Globals, env)
               out == get_rules(g.rules_cache, rq)
           IN  /\ SetGlobals([g EXCEPT !.rules_cache = out.cache])
               /\ req' = [op |-> "get_rules", rq |-> rq]
               /\ resp' = [op |-> "get_rules", seen |-> Seen(g), body |-> out.response,
                           unsorted |-> out.unsorted, filtered |-> out.filtered]
    /\ UNCHANGED <<started, transform_files>>

GetRules == GetRulesWith(Requests)

\* GET /rules/{sid}: <<the first rule with that id>>, or <<>> for the 404
get_rule_by_sid(cache, sid) ==
    LET hits == {i \in 1..Len(cache) : cache[i].id = <<sid>>}
    IN  IF hits = {} THEN <<>> ELSE <<cache[Min(hits)]>>

GetRuleBySid ==
    /\ started
    /\ \E sid \in Sids, env \in LazyEnvironments :
           LET g == ensure_loaded(Globals, env)
           IN  /\ SetGlobals(g)
               /\ req' = [op |-> "get_rule_by_sid", sid |-> sid]
               /\ resp' = [op |-> "get_rule_by_sid", seen |-> Seen(g),
                           body |-> get_rule_by_sid(g.rules_cache, sid)]
    /\ UNCHANGED <<started, transform_files>>

\* GET /stats
GetStats ==
    /\ started
    /\ \E env \in LazyEnvironments :
           LET g == ensure_loaded(Globals, env)
           IN  /\ SetGlobals(g)
               /\ resp' = [op |-> "get_stats", seen |-> Seen(g), body |-> g.stats_cache]
    /\ req' = [op |-> "get_stats"]
    /\ UNCHANGED <<started, transform_files>>

\* POST /transforms/{id}/dry-run: get_rules_cache() reads _rules_cache as it is
DryRunTransform ==
    /\ started
    /\ \E transform \in Transforms :
           /\ req' = [op |-> "dry_run", transform |-> transform]
           /\ resp' = [op |-> "dry_run", seen |-> Seen(Globals),
                       body |-> preview_transform(rules_cache, transform)]
    /\ UNCHANGED <<rules_cache, rules_loaded, stats_cache, llm_summaries, started,
                 transform_files>>

Next ==
    \/ Startup
    \/ ReloadRules
    \/ GetRules
    \/ GetRuleBySid
    \/ GetStats
    \/ DryRunTransform

Spec == Init /\ [][Next]_vars

-----------------------------------------------------------------------------
(* Queries: the rule lists and the requests get_rules is exercised with *)

S_msg_multi == << "E", "T", " ", "I", "N", "F", "O", " ", "M", "u", "l", "t", "i" >>

S_raw_multi ==
    << "d", "r", "o", "p", " ", "t", "c", "p", " ", "(", "m", "s", "g", ":", "\"", "E", "T", " ", "I", "N", "F", "O", " ", "M", "u", "l", "t", "i", "\"", ";", " ", "s", "i", "d", ":", "1", "4", ";", ")" >>

S_a == << "a" >>

S_b == << "b" >>

\* A rule whose metadata key "tag" holds a list of values
RuleMulti ==
    MakeRule(<<14>>, S_drop, S_tcp, S_msg_multi, S_Scan, S_et_open, S_INFO, TRUE, <<2>>,
             [k \in {"tag"} |-> MList(<<S_a, S_b>>)], S_raw_multi)

\* The longest rule list a query is run on
MaxQueryRules == 2

QueryRules == {RuleEvil, RulePing, RuleNoMsg, RuleMulti}

QueryEnvironments ==
    {[all_rules |-> l, docs |-> d] :
        l \in SeqsUpTo(QueryRules, MaxQueryRules),
        d \in {[kind |-> "ok", sids |-> {11}]}}

\* search and raw_search as typed into the two search bars
SearchTexts ==
    {<< "e", "v", "i", "l" >>,
     << "!", "e", "v", "i", "l" >>,
     << "E", "V", "I", "L", " ", "p", "i", "n", "g" >>,
     << "1", "1" >>,
     << "m", "a", "l", "w", "a", "r", "e", " ", "!", "\"", "e", "t", " ", "i", "n", "f", "o", "\"" >>,
     << "!" >>,
     << "m", "u", "l", "t", " ", "!", "1", "2" >>}

RawTexts ==
    {<< "s", "i", "d", ":", "1", "1" >>,
     << "!", "u", "d", "p" >>,
     << "F", "L", "O", "W", " ", "s", "i", "d", ":" >>}

SearchRequests ==
    {[DefaultRequest EXCEPT !.search = st] : st \in SearchTexts}
    \cup {[DefaultRequest EXCEPT !.raw_search = rt] : rt \in RawTexts}
    \cup {[DefaultRequest EXCEPT !.search = st, !.raw_search = rt] :
             st \in {<< "e", "v", "i", "l" >>, << "!", "e", "v", "i", "l" >>}, rt \in RawTexts}

Params(key, values) == [k \in {key} |-> values]

\* The values a client selects in one filter dimension
FieldChoices ==
    [action       |-> {<<S_alert>>, <<S_drop, S_alert>>},
     protocol     |-> {<<Upper(S_tcp)>>},
     classtype    |-> {<<Upper(S_trojan)>>, <<Unset>>, <<S_Scan, Unset>>},
     sid          |-> {<<11>>},
     source       |-> {<<S_et_open>>, <<Upper(S_et_open)>>, <<S_et_open, Unset>>, <<S_stamus>>},
     category     |-> {<<Lower(S_MALWARE)>>, <<Unset>>, <<S_INFO, Unset>>},
     enabled      |-> {<<StrFalse>>, <<StrFalse, Upper(StrTrue)>>},
     llm_summary  |-> {<<StrTrue>>},
     query_params |-> {Params("signature_severity", <<S_Major>>),
                       Params("signature_severity", <<Lower(S_Minor), Unset>>),
                       Params("tag", <<S_a>>),
                       Params("tag", <<Unset>>),
                       Params("tag", <<S_b, Unset>>),
                       [k \in {"tag", "signature_severity"} |->
                           IF k = "tag" THEN <<Unset>> ELSE <<S_Major, S_Minor>>]}]

OneFilterRequests ==
    UNION {{[DefaultRequest EXCEPT ![f] = v] : v \in FieldChoices[f]} : f \in DOMAIN FieldChoices}

\* Requests that narrow in several dimensions at once
ManyFilterRequests ==
    {[DefaultRequest EXCEPT !.action = <<S_alert>>, !.enabled = <<StrTrue>>],
     [DefaultRequest EXCEPT !.action = <<S_alert>>, !.protocol = <<S_udp>>],
     [DefaultRequest EXCEPT !.source = <<S_et_open, Unset>>, !.classtype = <<S_Scan, Unset>>],
     [DefaultRequest EXCEPT !.search = << "e", "v", "i", "l" >>, !.category = <<S_MALWARE>>,
                            !.protocol = <<S_tcp>>],
     [DefaultRequest EXCEPT !.raw_search = << "s", "i", "d", ":", "1", "1" >>, !.llm_summary = <<StrTrue>>],
     [DefaultRequest EXCEPT !.sid = <<11>>, !.source = <<S_stamus>>],
     [DefaultRequest EXCEPT !.enabled = <<StrTrue>>,
                            !.query_params = Params("signature_severity", <<S_Major, Unset>>)],
     [DefaultRequest EXCEPT !.category = <<S_INFO>>, !.query_params = Params("tag", <<S_a>>),
                            !.action = <<S_drop>>]}

QueryRequests == SearchRequests \cup OneFilterRequests \cup ManyFilterRequests

QueryNext == StartupFrom(QueryEnvironments) \/ GetRulesWith(QueryRequests)

SpecQuery == Init /\ [][QueryNext]_vars

-----------------------------------------------------------------------------
(* Sorting: the rule lists and the requests get_rules is exercised with *)

\* The longest rule list a sort is run on
MaxSortRules == 3

SortRules == {RuleEvil, RulePing, RuleNoMsg, RuleEvil2}

SortEnvironments ==
    {[all_rules |-> l, docs |-> [kind |-> "missing", sids |-> {}]] :
        l \in SeqsUpTo(SortRules, MaxSortRules)}

\* sort_by as a client can send it: the registered names and others
SortNames == sort_fields \cup {"bogus", ""}

SortRequests ==
    {[DefaultRequest EXCEPT !.sort_by = f, !.sort_order = o] :
        f \in SortNames, o \in {S_asc, S_desc}}
    \cup {[DefaultRequest EXCEPT !.sort_by = "bogus", !.sort_order = Upper(S_desc)]}

SortNext == StartupFrom(SortEnvironments) \/ GetRulesWith(SortRequests)

SpecSort == Init /\ [][SortNext]_vars

-----------------------------------------------------------------------------
(* Pagination: the rule lists and the requests get_rules is exercised with *)

\* The longest rule list a page is cut from
MaxPageRules == 3

\* The largest page number asked for
MaxPage == 3

\* The largest page_size asked for
MaxPageSize == 3

PageEnvironments ==
    {[all_rules |-> l, docs |-> [kind |-> "missing", sids |-> {}]] :
        l \in SeqsUpTo({RuleEvil, RulePing, RuleNoMsg}, MaxPageRules)}

\* page and page_size are validated by Query(ge=1) before the handler runs
PageRequests ==
    {[DefaultRequest EXCEPT !.page = p, !.page_size = s, !.action = a, !.sort_order = o] :
        p \in 1..MaxPage, s \in 1..MaxPageSize, a \in {<<>>, <<S_alert>>},
        o \in {S_asc, S_desc}}

PageNext == StartupFrom(PageEnvironments) \/ GetRulesWith(PageRequests)

SpecPage == Init /\ [][PageNext]_vars

-----------------------------------------------------------------------------
(* parse_search_query on its own: every query over a small alphabet *)

\* The longest query parsed
MaxQueryLen == 5

\* Two letters, the blank, the negation marker, the quote and the backslash
QueryChars == {"a", "b", " ", "!", "\"", "\\"}

Queries == SeqsUpTo(QueryChars, MaxQueryLen)

ParseInit ==
    /\ rules_cache = <<>>
    /\ rules_loaded = FALSE
    /\ stats_cache = NoStats
    /\ llm_summaries = {}
    /\ started = FALSE
    /\ transform_files = NoFiles
    /\ req \in {[op |-> "parse_search_query", query |-> q] : q \in Queries}
    /\ resp = [op |-> "none"]

ParseSearchQuery ==
    /\ req.op = "parse_search_query"
    /\ resp.op = "none"
    /\ resp' = [op |-> "parse_search_query", body |-> parse_search_query(req.query)]
    /\ UNCHANGED <<rules_cache, rules_loaded, stats_cache, llm_summaries, started,
                 transform_files, req>>

\* The description get_rules derives from the parsed terms (lines 516-538)
DescribeSearch ==
    /\ resp.op = "parse_search_query"
    /\ resp' = [op |-> "format_search_logic", terms |-> resp.body,
                body |-> format_search_logic(resp.body.positive, resp.body.negative)]
    /\ UNCHANGED <<rules_cache, rules_loaded, stats_cache, llm_summaries, started,
                 transform_files, req>>

ParseNext == ParseSearchQuery \/ DescribeSearch

SpecParse == ParseInit /\ [][ParseNext]_vars

-----------------------------------------------------------------------------
(* The statistics: the rule lists _compute_stats is exercised with *)

\* The longest rule list counted
MaxStatsRules == 3

StatsEnvironments ==
    {[all_rules |-> l, docs |-> [kind |-> "ok", sids |-> {11}]] :
        l \in SeqsUpTo({RuleEvil, RulePing, RuleNoMsg, RuleMulti}, MaxStatsRules)}

StatsNext == StartupFrom(StatsEnvironments) \/ GetStats

SpecStats == Init /\ [][StatsNext]_vars

-----------------------------------------------------------------------------
(* evaluate_criteria on its own: rules, fields, operators and values *)

CriteriaOperator == {"exact_match", "contains", "regex", "in_list", "not_in_list",
                     "greater_than", "less_than", "exists", "not_exists"}

S_5 == << "5" >>

\* str(True)
S_True == << "T", "r", "u", "e" >>

\* An unterminated group: re.error
S_bad_regex == << "(", "a" >>

\* A repetition count of MAXREPEAT
S_big_repeat == <<"a", "{">> \o S_MAXREPEAT \o <<"}">>

\* Fields of the rule, metadata keys present and absent, a dotted name
\* outside metadata and a name no rule has
CriteriaFields ==
    {<<"msg">>, <<"id">>, <<"action">>, <<"classtype">>, <<"enabled">>, <<"tags">>,
     <<"bogus">>, <<"metadata", "signature_severity">>, <<"metadata", "missing_key">>,
     <<"options", "signature_severity">>}

\* value: Union[str, int, List[str], None]
CriteriaValues ==
    {VNone, VInt(5), VHugeInt, VStr(S_5), VStr(S_Major), VStr(S_True), VStr(Lower(S_msg_evil)), VStr(S_bad_regex),
     VStr(S_big_repeat), VList(<<S_alert, S_Major>>), VList(<<>>)}

CriteriaRules == {RuleEvil, RulePing, RuleNoMsg, RuleMulti}

Criteria ==
    {Criterion(f, o, v, cs) :
        f \in CriteriaFields, o \in CriteriaOperator, v \in CriteriaValues, cs \in BOOLEAN}

CriteriaInit ==
    /\ rules_cache = <<>>
    /\ rules_loaded = FALSE
    /\ stats_cache = NoStats
    /\ llm_summaries = {}
    /\ started = FALSE
    /\ transform_files = NoFiles
    /\ req \in {[op |-> "evaluate_criteria", rule |-> r, criteria |-> c] :
                   r \in CriteriaRules, c \in Criteria}
    /\ resp = [op |-> "none"]

\* One call: what it raises, and what it returns when it raises nothing
EvaluateCriteria ==
    /\ req.op = "evaluate_criteria"
    /\ resp.op = "none"
    /\ LET raised == evaluate_criteria_raises(req.rule, req.criteria)
       IN  resp' = [op |-> "evaluate_criteria", raised |-> raised,
                    returned |-> IF raised = "none"
                                 THEN <<evaluate_criteria(req.rule, req.criteria)>>
                                 ELSE <<>>]
    /\ UNCHANGED <<rules_cache, rules_loaded, stats_cache, llm_summaries, started,
                 transform_files, req>>

CriteriaNext == EvaluateCriteria

SpecCriteria == CriteriaInit /\ [][CriteriaNext]_vars

-----------------------------------------------------------------------------
(* The dry-run on its own: rule lists with more matches than examples *)

S_trojan_activity ==
    << "t", "r", "o", "j", "a", "n", "-", "a", "c", "t", "i", "v", "i", "t", "y" >>

S_raw_dry ==
    << "a", "l", "e", "r", "t", " ", "t", "c", "p", " ", "(", "m", "s", "g", ":", "\"",
       "E", "T", " ", "M", "A", "L", "W", "A", "R", "E", " ", "E", "v", "i", "l", "\"",
       ";", " ", "s", "i", "d", ":" >>

\* The rule at place i of a list: "on" an enabled trojan-activity rule, "off"
\* a disabled one without source, "other" an enabled rule of another
\* classtype without category
DryRule(i, kind) ==
    MakeRule(<<100 + i>>, S_alert, S_tcp, S_msg_evil,
             IF kind = "other" THEN S_Scan ELSE S_trojan_activity,
             CASE kind = "on" -> S_et_open [] kind = "off" -> None [] kind = "other" -> S_stamus,
             IF kind = "other" THEN None ELSE S_MALWARE,
             kind # "off", <<1>>, NoMetadata,
             S_raw_dry \o IntStr(100 + i) \o <<";", ")">>)

RulesOfKinds(kinds) == [i \in 1..Len(kinds) |-> DryRule(i, kinds[i])]

Repeat(x, n) == [i \in 1..n |-> x]

\* The longest list of rules of mixed kinds
MaxDryRunShort == 3

\* The longest leading run of "on" rules, the longest run of "off" rules
\* after it and the longest closing run of "on" rules
MaxRunOn == 7

MaxRunOff == 3

MaxRunTail == 4

DryRunKinds ==
    SeqsUpTo({"on", "off", "other"}, MaxDryRunShort) \cup
    {Repeat("on", a) \o Repeat("off", b) \o Repeat("on", c) :
        a \in 0..MaxRunOn, b \in 0..MaxRunOff, c \in 0..MaxRunTail}

DryRunEnvironments ==
    {[all_rules |-> RulesOfKinds(k), docs |-> [kind |-> "missing", sids |-> {}]] :
        k \in DryRunKinds}

\* actions: List[TransformAction]
DryRunActions ==
    <<[action_type |-> "add_tag", key |-> None, value |-> VStr(S_a)],
      [action_type |-> "update_priority", key |-> None, value |-> VInt(1)]>>

IsTrojan == Criterion(<<"classtype">>, "exact_match", VStr(S_trojan_activity), FALSE)

\* enabled equals true, the value written as str(True) and in lower case
IsEnabled == Criterion(<<"enabled">>, "exact_match", VStr(S_True), FALSE)

IsEnabledLower == Criterion(<<"enabled">>, "exact_match", VStr(Lower(S_True)), FALSE)

TransformOf(id, criteria) ==
    [id |-> id, name |-> "preview", actions |-> DryRunActions, criteria |-> criteria]

\* Transforms posted to /transforms/test; "" is a transform without id
DryRunTransforms ==
    {TransformOf("and", ListOfCriteria(<<IsTrojan, IsEnabled>>)),
     TransformOf("and_lower", ListOfCriteria(<<IsTrojan, IsEnabledLower>>)),
     TransformOf("one", OneCriterion(IsTrojan)),
     TransformOf("", ListOfCriteria(<<>>)),
     TransformOf("scan", OneCriterion(Criterion(<<"classtype">>, "in_list",
                                                VList(<<S_Scan>>), TRUE))),
     TransformOf("big", ListOfCriteria(
         <<IsEnabled, Criterion(<<"msg">>, "regex", VStr(S_big_repeat), FALSE)>>))}

\* POST /transforms/test (transforms.py:109-123): the preview of a posted
\* transform over _rules_cache as it is; what it raises, or its result
TestTransform ==
    /\ started
    /\ \E posted \in DryRunTransforms :
           LET transform == IF posted.id = "" THEN [posted EXCEPT !.id = "test"] ELSE posted
               raised    == preview_transform_raises(rules_cache, transform)
           IN  /\ req' = [op |-> "test_transform", transform |-> transform]
               /\ resp' = [op |-> "test_transform", seen |-> Seen(Globals), raised |-> raised,
                           body |-> IF raised = "none"
                                    THEN <<preview_transform(rules_cache, transform)>>
                                    ELSE <<>>]
    /\ UNCHANGED <<rules_cache, rules_loaded, stats_cache, llm_summaries, started,
                 transform_files>>

DryRunNext == StartupFrom(DryRunEnvironments) \/ TestTransform

SpecDryRun == Init /\ [][DryRunNext]_vars

-----------------------------------------------------------------------------
(* The transform repository: the transforms and the identifiers it is called with *)

\* The latest reading of the clock
MaxNow == 2

\* datetime.now() as the calls read it
Times == 1..MaxNow

S_dot_a == << ".", "/", "a" >>

S_uuid8 == << "8", "6", "e", "f", "a", "4", "3", "c" >>

S_stored_name == << "f", "i", "r", "s", "t" >>

S_new_name == << "s", "e", "c", "o", "n", "d" >>

\* The identifiers the repository is addressed with
RepositoryIds == {S_a, S_dot_a, S_transform_ \o S_uuid8}

\* The transforms submitted: with no id, an empty one, and ids of their
\* own; created_at and updated_at as the client or the default factory set
\* them, before any reading of the clock
SubmittedTransforms ==
    {[id |-> i, name |-> n, created_at |-> <<0>>, updated_at |-> <<0>>] :
        i \in {None, <<>>, S_a, S_dot_a}, n \in {S_stored_name, S_new_name}}

Create ==
    /\ \E transform \in SubmittedTransforms, now \in Times :
           LET out == create(transform_files, transform, S_uuid8, now)
           IN  /\ transform_files' = out.files
               /\ req' = [op |-> "create", transform_id |-> None, transform |-> <<transform>>]
               /\ resp' = [op |-> "create", returned |-> <<out.returned>>]
    /\ UNCHANGED <<rules_cache, rules_loaded, stats_cache, llm_summaries, started>>

Read ==
    /\ \E transform_id \in RepositoryIds :
           /\ req' = [op |-> "read", transform_id |-> transform_id, transform |-> <<>>]
           /\ resp' = [op |-> "read", returned |-> read(transform_files, transform_id)]
    /\ UNCHANGED <<rules_cache, rules_loaded, stats_cache, llm_summaries, started,
                   transform_files>>

Update ==
    /\ \E transform_id \in RepositoryIds, transform \in SubmittedTransforms, now \in Times :
           LET out == update(transform_files, transform_id, transform, now)
           IN  /\ transform_files' = out.files
               /\ req' = [op |-> "update", transform_id |-> transform_id,
                          transform |-> <<transform>>]
               /\ resp' = [op |-> "update", returned |-> <<out.returned>>]
    /\ UNCHANGED <<rules_cache, rules_loaded, stats_cache, llm_summaries, started>>

Delete ==
    /\ \E transform_id \in RepositoryIds :
           LET out == delete(transform_files, transform_id)
           IN  /\ transform_files' = out.files
               /\ req' = [op |-> "delete", transform_id |-> transform_id, transform |-> <<>>]
               /\ resp' = [op |-> "delete", returned |-> <<out.returned>>]
    /\ UNCHANGED <<rules_cache, rules_loaded, stats_cache, llm_summaries, started>>

RepositoryNext == Create \/ Read \/ Update \/ Delete

SpecRepository == Init /\ [][RepositoryNext]_vars

-----------------------------------------------------------------------------
(* Properties of the cache and its reload *)

ReadOps == {"get_rules", "get_rule_by_sid", "get_stats", "dry_run"}

\* The rules of a list that carry the summary flag
Flagged(rules) == {i \in 1..Len(rules) : rules[i].llm_summary_available}

CountOf(table, key) == IF key \in DOMAIN table THEN table[key] ELSE 0

\* A rule list together with the stats of that same list, its enrichment done
CompleteSnapshot(sn) ==
    /\ sn.loaded
    /\ sn.stats # NoStats
    /\ sn.stats[1].total_rules = Len(sn.rules)
    /\ CountOf(sn.stats[1].llm_status, StrTrue) = Cardinality(Flagged(sn.rules))
    /\ CountOf(sn.stats[1].enabled_status, StrTrue)
           = Cardinality({i \in 1..Len(sn.rules) : sn.rules[i].enabled})
    /\ \A i \in 1..Len(sn.rules) :
           (sn.rules[i].id # <<>> /\ sn.rules[i].id[1] \in llm_summaries)
               => sn.rules[i].llm_summary_available

C2_StatsMatchCurrentRules ==
    rules_loaded =>
        /\ stats_cache # NoStats
        /\ stats_cache[1] = compute_stats(rules_cache)
        /\ stats_cache[1].total_rules = Len(rules_cache)
        /\ (resp.op = "get_stats" => resp.body = <<compute_stats(rules_cache)>>)

\* C2 witness: a stats read after a reload that published two rules, one of
\* them enriched
C2_Witness ==
    /\ resp.op = "get_stats"
    /\ rules_loaded
    /\ llm_summaries = {11, 12}
    /\ Len(rules_cache) = 2
    /\ Cardinality(Flagged(rules_cache)) = 1

\* C3: with the rules loaded, a step of a read handler changes neither the
\* published list (same records, same order), nor the stats cache, nor the
\* loaded flag, nor the summaries.
C3_ReadsLeaveSharedStateAlone ==
    [][(rules_loaded /\ req'.op \in ReadOps) => UNCHANGED shared]_vars

\* C3 witness: a get_rules without filters whose sorted answer is in another
\* order than the published list it was taken from
C3_Witness ==
    /\ req.op = "get_rules"
    /\ ~\E d \in Range(filter_order) : supplied(d, req.rq)
    /\ Len(rules_cache) = 2
    /\ resp.body.total = 2
    /\ resp.body.rules # rules_cache

-----------------------------------------------------------------------------
(* Properties of the filters *)

SuppliedDims(rq) == {d \in Range(filter_order) : supplied(d, rq)}

\* The dimensions whose parameter is a list of selected values
ListDims == {"action", "protocol", "classtype", "source", "category", "enabled", "llm_summary"}

DynamicKeys(rq) == (DOMAIN rq.query_params) \ known_fields

Perms(S) ==
    {p \in [1..Cardinality(S) -> S] : \A i, j \in 1..Cardinality(S) : i # j => p[i] # p[j]}

\* C4: the list get_rules is left with after its filters holds exactly the
\* rules of the snapshot that pass every supplied dimension (AND), in snapshot
\* order; a rule passes a dimension with several selected values iff it passes
\* it with one of them alone (OR), for the dynamic metadata keys key by key;
\* and running the supplied stages in any other order gives the same list.
C4_FiltersComposeByAnd ==
    resp.op = "get_rules" =>
        LET rq    == req.rq
            cache == resp.seen.rules
            dims  == SuppliedDims(rq)
        IN  /\ resp.unsorted = SelectSeq(cache, LAMBDA r : \A d \in dims : keeps(d, r, rq))
            /\ resp.body.total = Len(resp.unsorted)
            /\ \A p \in Perms(dims) : run_stages(ListCopy(cache), p, rq).items = resp.unsorted
            /\ \A i \in 1..Len(cache) :
                   /\ \A d \in dims \cap ListDims :
                          keeps(d, cache[i], rq)
                              <=> \E j \in 1..Len(rq[d]) :
                                      keeps(d, cache[i], [rq EXCEPT ![d] = <<rq[d][j]>>])
                   /\ "metadata" \in dims =>
                          (keeps("metadata", cache[i], rq)
                              <=> \A k \in DynamicKeys(rq) :
                                      \E j \in 1..Len(rq.query_params[k]) :
                                          keeps("metadata", cache[i],
                                                [rq EXCEPT !.query_params =
                                                    Params(k, <<rq.query_params[k][j]>>)]))

\* C4 witness: a query narrowing in several dimensions over two rules that
\* keeps one of them and drops the other although it passes one dimension
C4_Witness ==
    /\ resp.op = "get_rules"
    /\ Cardinality(SuppliedDims(req.rq)) >= 2
    /\ Len(resp.seen.rules) = 2
    /\ Len(resp.unsorted) = 1
    /\ \E i \in 1..2, d \in SuppliedDims(req.rq) :
           /\ resp.seen.rules[i] # resp.unsorted[1]
           /\ keeps(d, resp.seen.rules[i], req.rq)

\* Term matching as the claim words it; a rule parsed without msg option has
\* the empty msg and no message text, a rule without sid has no id
ClaimStandardMatch(rule, term) ==
    \/ (Truthy(rule.msg) /\ Contains(Lower(rule.msg), Lower(term)))
    \/ (rule.id # <<>> /\ Contains(IntStr(rule.id[1]), Lower(term)))
    \/ InList(Lower(term), rule.tags)

ClaimRawMatch(rule, term) == Contains(Lower(rule.raw_rule), Lower(term))

\* The term matchers: those of the code, and those the claim words
Match(matcher, rule, term) ==
    CASE matcher = "standard"       -> term_matches_in_standard_fields(rule, term)
      [] matcher = "raw"            -> term_matches_in_raw(rule, term)
      [] matcher = "claim_standard" -> ClaimStandardMatch(rule, term)
      [] matcher = "claim_raw"      -> ClaimRawMatch(rule, term)

\* A rule satisfies parsed terms (P, N) under a term matcher
Satisfies(P, N, rule, matcher) ==
    /\ (P = <<>> \/ \E i \in 1..Len(P) : Match(matcher, rule, P[i]))
    /\ (N = <<>> \/ \A i \in 1..Len(N) : ~Match(matcher, rule, N[i]))

\* A rule satisfies one search input; an input that was not supplied asks nothing
SatisfiesSearch(rule, text, matcher) ==
    ~Truthy(text) \/
        LET t == parse_search_query(text) IN Satisfies(t.positive, t.negative, rule, matcher)

OnlySearchSupplied == resp.op = "get_rules" /\ SuppliedDims(req.rq) = {"search"}

\* C5: with only searches supplied, get_rules keeps exactly the rules that,
\* for each supplied search input with parsed terms (P, N), match at least one
\* term of P unless P is empty and match no term of N; a rule is kept only
\* if it satisfies both the standard and the raw-text input.
C5_SearchSemantics ==
    OnlySearchSupplied =>
        resp.unsorted =
            SelectSeq(resp.seen.rules,
                      LAMBDA r : /\ SatisfiesSearch(r, req.rq.search, "standard")
                                 /\ SatisfiesSearch(r, req.rq.raw_search, "raw"))

\* C5 witness: both search bars filled, one of two rules kept, the other
\* dropped by the raw-text search although it satisfies the standard search
C5_Witness ==
    /\ OnlySearchSupplied
    /\ Truthy(req.rq.search) /\ Truthy(req.rq.raw_search)
    /\ Len(resp.seen.rules) = 2
    /\ Len(resp.unsorted) = 1
    /\ \E i \in 1..2 :
           /\ resp.seen.rules[i] # resp.unsorted[1]
           /\ SatisfiesSearch(resp.seen.rules[i], req.rq.search, "standard")

ClaimScalar(value, selected) ==
    \/ selected = <<>>
    \/ (Truthy(value) /\ \E i \in 1..Len(selected) : Lower(selected[i]) = Lower(value))
    \/ (~Truthy(value) /\ InList(Unset, selected))

\* C7: with only classtype and source filters supplied, get_rules keeps
\* exactly the rules whose classtype and source each equal a selected value
\* whatever the letter case, or are absent or empty with "(unset)" selected.
C7_ScalarFiltersFoldCase ==
    (/\ resp.op = "get_rules"
     /\ SuppliedDims(req.rq) # {}
     /\ SuppliedDims(req.rq) \subseteq {"classtype", "source"}) =>
        resp.unsorted =
            SelectSeq(resp.seen.rules,
                      LAMBDA r : /\ ClaimScalar(r.classtype, req.rq.classtype)
                                 /\ ClaimScalar(r.source, req.rq.source))

\* The lower-cased values a rule holds under a metadata key
MetaValues(rule, key) ==
    IF key \notin DOMAIN rule.metadata THEN {}
    ELSE LET m == rule.metadata[key]
         IN  IF m.kind = "list" THEN {Lower(m.val[i]) : i \in DOMAIN m.val}
             ELSE IF m.val = <<>> THEN {} ELSE {Lower(m.val)}

\* A dynamic metadata filter as the claim words it
ClaimMeta(rule, key, selected) ==
    LET sel  == {Lower(selected[i]) : i \in DOMAIN selected}
        vals == MetaValues(rule, key)
    IN  \/ (vals # {} /\ vals \cap sel # {})
        \/ (vals = {} /\ Unset \in sel)

-----------------------------------------------------------------------------
(* Properties of the sort *)

\* The rules of l whose key under field is k, in the order l holds them
WithKey(l, field, k) == SelectSeq(l, LAMBDA r : sort_key(field, r) = k)

KeysOf(l, field) == {sort_key(field, l[i]) : i \in 1..Len(l)}

\* l is in ascending (descending, when reverse) order of the keys of field
Ordered(l, field, reverse) ==
    \A i, j \in 1..Len(l) :
        i < j => IF reverse THEN ~KeyLess(sort_key(field, l[i]), sort_key(field, l[j]))
                            ELSE ~KeyLess(sort_key(field, l[j]), sort_key(field, l[i]))

IsDesc(sort_order) == Lower(sort_order) = S_desc

\* C9: for a registered sort field, the sorted list holds, for every key, the
\* rules with that key in the order the filtered list held them, for
\* sort_order asc and for desc alike, and is in ascending (for desc,
\* descending) order of the keys.
C9_SortIsStable ==
    (resp.op = "get_rules" /\ req.rq.sort_by \in sort_fields) =>
        LET f == req.rq.sort_by
        IN  /\ Len(resp.filtered) = Len(resp.unsorted)
            /\ \A k \in KeysOf(resp.unsorted, f) :
                   WithKey(resp.filtered, f, k) = WithKey(resp.unsorted, f, k)
            /\ Ordered(resp.filtered, f, IsDesc(req.rq.sort_order))

\* C9 witness: a descending sort of three rules, two of them distinct with
\* the same key and listed before a rule with a greater key
C9_Witness ==
    /\ resp.op = "get_rules"
    /\ req.rq.sort_by \in sort_fields
    /\ IsDesc(req.rq.sort_order)
    /\ Len(resp.unsorted) = 3
    /\ resp.unsorted[1] # resp.unsorted[2]
    /\ sort_key(req.rq.sort_by, resp.unsorted[1]) = sort_key(req.rq.sort_by, resp.unsorted[2])
    /\ KeyLess(sort_key(req.rq.sort_by, resp.unsorted[1]),
               sort_key(req.rq.sort_by, resp.unsorted[3]))
    /\ resp.filtered = <<resp.unsorted[3], resp.unsorted[1], resp.unsorted[2]>>

UnknownSortBy == resp.op = "get_rules" /\ req.rq.sort_by \notin sort_fields

\* C10 as stated: with a sort_by that is not registered, get_rules answers
\* with the rules in ascending order of the case-folded message text,
\* whatever sort_order is.
C10_UnknownSortByAscending ==
    UnknownSortBy =>
        /\ resp.body.total = Len(resp.unsorted)
        /\ Ordered(resp.filtered, "msg", FALSE)

\* C10 as amended: with a sort_by that is not registered, get_rules answers
\* with the same rules ordered by the case-folded message text, ascending
\* unless sort_order is "desc" in any letter case, and descending then; rules
\* with the same folded message keep their order.
C10_UnknownSortByFallsBackToMsg ==
    UnknownSortBy =>
        /\ resp.body.total = Len(resp.unsorted)
        /\ Len(resp.filtered) = Len(resp.unsorted)
        /\ \A k \in KeysOf(resp.unsorted, "msg") :
               WithKey(resp.filtered, "msg", k) = WithKey(resp.unsorted, "msg", k)
        /\ Ordered(resp.filtered, "msg", IsDesc(req.rq.sort_order))

\* C10 witness: an unregistered sort_by with sort_order desc over rules with
\* different messages, answered in descending order of the message
C10_Witness ==
    /\ UnknownSortBy
    /\ IsDesc(req.rq.sort_order)
    /\ Len(resp.filtered) >= 2
    /\ KeyLess(sort_key("msg", resp.filtered[2]), sort_key("msg", resp.filtered[1]))
    /\ resp.filtered # resp.unsorted

-----------------------------------------------------------------------------
(* Properties of the pagination *)

\* C11: the page get_rules returns holds the rules of the sorted filtered
\* list at the indices from (page-1)*page_size up to, not including,
\* (page-1)*page_size + page_size that exist, none when the start is past the
\* end; total is the length of the filtered list, whatever the page.
C11_PageIsSlice ==
    resp.op = "get_rules" =>
        LET first == (req.rq.page - 1) * req.rq.page_size
            all   == resp.filtered
            page  == resp.body.rules
            avail == IF Len(all) > first THEN Len(all) - first ELSE 0
        IN  /\ Len(page) = (IF avail < req.rq.page_size THEN avail ELSE req.rq.page_size)
            /\ \A k \in 1..Len(page) : page[k] = all[first + k]
            /\ resp.body.total = Len(all)
            /\ resp.body.total = Len(resp.unsorted)
            /\ resp.body.page = req.rq.page
            /\ resp.body.page_size = req.rq.page_size

\* C11 witness: the second page of size 2 of three rules, holding the third
C11_Witness ==
    /\ resp.op = "get_rules"
    /\ req.rq.page = 2 /\ req.rq.page_size = 2
    /\ resp.body.total = 3
    /\ resp.body.rules = <<resp.filtered[3]>>

\* C11 witness: a page whose start index is past the end, answered empty
C11_WitnessPastEnd ==
    /\ resp.op = "get_rules"
    /\ (req.rq.page - 1) * req.rq.page_size >= resp.body.total
    /\ resp.body.total = 2
    /\ resp.body.rules = <<>>

\* No search text, no filter value in any dimension, no metadata key
NothingSupplied == resp.op = "get_rules" /\ SuppliedDims(req.rq) = {}

\* C12 (as stated): with nothing supplied the query answers the loaded rule
\* list in its own order.
C12_QueryKeepsSnapshotOrder == NothingSupplied => resp.filtered = resp.seen.rules

\* C12 (amended): with nothing supplied the filter stages leave the loaded
\* rule list unchanged, same length and same order, and total is its length;
\* the list the query answers from is that list in the stable order of the
\* sort key, not in the loaded order.
C12_FilterIdentity ==
    NothingSupplied =>
        LET f == effective_sort_field(req.rq.sort_by)
        IN  /\ resp.unsorted = resp.seen.rules
            /\ resp.body.total = Len(resp.seen.rules)
            /\ Len(resp.filtered) = Len(resp.seen.rules)
            /\ \A k \in KeysOf(resp.seen.rules, f) :
                   WithKey(resp.filtered, f, k) = WithKey(resp.seen.rules, f, k)
            /\ Ordered(resp.filtered, f, IsDesc(req.rq.sort_order))

\* C12 witness: nothing supplied, and the loaded list is not in the order of
\* its messages, so the answer is ordered otherwise than the loaded list
C12_Witness ==
    /\ NothingSupplied
    /\ Len(resp.seen.rules) = 3
    /\ resp.unsorted = resp.seen.rules
    /\ resp.filtered # resp.seen.rules
    /\ req.rq.sort_order = S_asc

-----------------------------------------------------------------------------
(* Properties of the search query parser *)

\* The query as the grammar reads it: the two characters \! are one unit,
\* the literal exclamation mark, written "ESC" here
RECURSIVE Units(_)
Units(q) ==
    IF q = <<>> THEN <<>>
    ELSE IF Len(q) >= 2 /\ q[1] = "\\" /\ q[2] = "!"
         THEN <<"ESC">> \o Units(SubSeq(q, 3, Len(q)))
         ELSE <<Head(q)>> \o Units(Tail(q))

Literal(u) == [i \in 1..Len(u) |-> IF u[i] = "ESC" THEN "!" ELSE u[i]]

\* The index of the quote closing the one at open, 0 when there is none
ClosingQuote(u, open) ==
    LET closes == {j \in (open + 1)..Len(u) : u[j] = "\""}
    IN  IF closes = {} THEN 0 ELSE Min(closes)

\* The index of the opening quote of the phrase starting at k, 0 when no
\* phrase starts there: a quote, or the marker directly before a quote, with
\* a closing quote further on
PhraseOpen(u, k) ==
    IF k > Len(u) THEN 0
    ELSE IF u[k] = "\"" /\ ClosingQuote(u, k) # 0 THEN k
    ELSE IF u[k] = "!" /\ k < Len(u) /\ u[k + 1] = "\"" /\ ClosingQuote(u, k + 1) # 0
         THEN k + 1
    ELSE 0

Blank(u, k) == k < 1 \/ k > Len(u) \/ IsSpaceChar(u[k])

\* The items of a query from index i on, in the order they are written: the
\* phrases and the tokens, each with its polarity and its text without the
\* marker; glued marks an item that touches a phrase without a blank between
RECURSIVE Items(_, _)
Items(u, i) ==
    IF i > Len(u) THEN <<>>
    ELSE IF IsSpaceChar(u[i]) THEN Items(u, i + 1)
    ELSE IF PhraseOpen(u, i) # 0
         THEN LET open  == PhraseOpen(u, i)
                  close == ClosingQuote(u, open)
              IN  <<[negative |-> open # i, quoted |-> TRUE,
                     text |-> Literal(SubSeq(u, open + 1, close - 1)),
                     glued |-> ~Blank(u, i - 1) \/ ~Blank(u, close + 1)]>>
                  \o Items(u, close + 1)
         ELSE LET stops == {k \in (i + 1)..Len(u) : IsSpaceChar(u[k]) \/ PhraseOpen(u, k) # 0}
                  end   == IF stops = {} THEN Len(u) ELSE Min(stops) - 1
                  token == SubSeq(u, i, end)
                  neg   == token[1] = "!"
              IN  <<[negative |-> neg, quoted |-> FALSE,
                     text |-> Literal(IF neg THEN Tail(token) ELSE token),
                     glued |-> ~Blank(u, i - 1) \/ ~Blank(u, end + 1)]>>
                  \o Items(u, end + 1)

ItemsOf(q) == Items(Units(q), 1)

\* Every phrase and token of the query is set off by blanks
Separated(q) == \A i \in 1..Len(ItemsOf(q)) : ~ItemsOf(q)[i].glued

TextsOf(items) == [i \in 1..Len(items) |-> items[i].text]

Occurrences(l, x) == Cardinality({i \in 1..Len(l) : l[i] = x})

SameTerms(l, m) ==
    /\ Len(l) = Len(m)
    /\ \A x \in Range(l) \cup Range(m) : Occurrences(l, x) = Occurrences(m, x)

Parsed == resp.op = "parse_search_query"

\* C13: for a query whose tokens and quoted phrases are set off by blanks,
\* the negative terms are the tokens and phrases written with an unescaped
\* '!' in front, without that marker, and the positive terms are all the
\* others; a quoted phrase is one term with its blanks kept, and each run of
\* unquoted non-blank characters is one term.
C13_NegativeIffMarked ==
    (Parsed /\ Separated(req.query)) =>
        LET items == ItemsOf(req.query)
        IN  /\ SameTerms(resp.body.negative, TextsOf(SelectSeq(items, LAMBDA t : t.negative)))
            /\ SameTerms(resp.body.positive, TextsOf(SelectSeq(items, LAMBDA t : ~t.negative)))

\* C13 witness: a token and a negated token
C13_Witness ==
    /\ Parsed
    /\ req.query = <<"b", " ", "!", "a">>
    /\ resp.body = [positive |-> << <<"b">> >>, negative |-> << <<"a">> >>]

\* C13 witness: a negated phrase of two blanks and a letter
C13_WitnessPhrase ==
    /\ Parsed
    /\ req.query = <<"!", "\"", " ", "a", "\"">>
    /\ Separated(req.query)
    /\ resp.body = [positive |-> <<>>, negative |-> << <<" ", "a">> >>]

\* The query with every escape \! written as the single character c
EscapesAs(q, c) == [i \in 1..Len(Units(q)) |-> IF Units(q)[i] = "ESC" THEN c ELSE Units(q)[i]]

\* The terms with every character c written as '!'
AsMarks(terms, c) ==
    [i \in 1..Len(terms) |->
        [k \in 1..Len(terms[i]) |-> IF terms[i][k] = c THEN "!" ELSE terms[i][k]]]

HasEscape(q) == "ESC" \in Range(Units(q))

\* C14: for every query, the escape \! behaves as an ordinary character of
\* the term it is written in that comes back as '!': the terms are those of
\* the query with each escape written as a plain letter, in the same
\* polarity and order, with '!' in the place of that letter; so an escape
\* never negates, at the start of the query or of a token either, and no
\* term holds a character of the placeholder.
C14_EscapeIsLiteral ==
    Parsed =>
        LET plain == parse_search_query(EscapesAs(req.query, "x"))
        IN  /\ resp.body.positive = AsMarks(plain.positive, "x")
            /\ resp.body.negative = AsMarks(plain.negative, "x")
            /\ \A t \in Range(resp.body.positive) \cup Range(resp.body.negative) :
                   /\ "NUL" \notin Range(t)
                   /\ Range(t) \subseteq QueryChars

\* C14 witness: the escape first in the query and first in a later token,
\* both terms positive and starting with '!'
C14_Witness ==
    /\ Parsed
    /\ req.query = <<"\\", "!", " ", "\\", "!">>
    /\ HasEscape(req.query)
    /\ resp.body = [positive |-> << <<"!">>, <<"!">> >>, negative |-> <<>>]

\* C15 (as stated): both sequences list their terms in the order in which
\* the terms are first written in the query, quoted and unquoted mixed.
C15_OrderOfOccurrence ==
    (Parsed /\ Separated(req.query)) =>
        LET items == ItemsOf(req.query)
        IN  /\ resp.body.negative = TextsOf(SelectSeq(items, LAMBDA t : t.negative))
            /\ resp.body.positive = TextsOf(SelectSeq(items, LAMBDA t : ~t.negative))

-----------------------------------------------------------------------------
(* Properties of the description of the search logic *)

\* "t1" OR "t2" OR ... for one or more terms
RECURSIVE OrGroup(_)
OrGroup(terms) ==
    IF Len(terms) = 1 THEN <<"\"">> \o terms[1] \o <<"\"">>
    ELSE OrGroup(SubSeq(terms, 1, Len(terms) - 1))
             \o <<" ", "O", "R", " ", "\"">> \o terms[Len(terms)] \o <<"\"">>

\* AND NOT "t1" AND NOT "t2" ..., each clause with its AND in front
RECURSIVE AndNots(_)
AndNots(terms) ==
    IF terms = <<>> THEN <<>>
    ELSE AndNots(SubSeq(terms, 1, Len(terms) - 1))
             \o <<" ", "A", "N", "D", " ", "N", "O", "T", " ", "\"">>
             \o terms[Len(terms)] \o <<"\"">>

Described == resp.op = "format_search_logic"

\* C16: the description is the positive terms, each in double quotes, joined
\* by ' OR ', followed by NOT "<term>" for each negative term, all joined by
\* ' AND '; the OR group stands in parentheses exactly when there are two or
\* more positive terms and one or more negative terms; it is the empty
\* string when there is no term at all.
C16_FormatSearchLogic ==
    Described =>
        LET pos   == resp.terms.positive
            neg   == resp.terms.negative
            group == IF Len(pos) >= 2 /\ Len(neg) >= 1
                     THEN <<"(">> \o OrGroup(pos) \o <<")">>
                     ELSE OrGroup(pos)
        IN  resp.body =
                IF pos = <<>> /\ neg = <<>> THEN <<>>
                ELSE IF pos = <<>> THEN SubSeq(AndNots(neg), 6, Len(AndNots(neg)))
                ELSE group \o AndNots(neg)

\* C16 witness: two positive terms and a negative one (the empty term of a
\* lone marker), the OR group in parentheses
C16_Witness ==
    /\ Described
    /\ req.query = <<"a", " ", "b", " ", "!">>
    /\ resp.terms = [positive |-> << <<"a">>, <<"b">> >>, negative |-> << <<>> >>]
    /\ Head(resp.body) = "("

\* C16 witness: two positive terms alone, no parentheses
C16_WitnessOrOnly ==
    /\ Described
    /\ Len(resp.terms.positive) = 2 /\ resp.terms.negative = <<>>
    /\ Head(resp.body) = "\""

\* C16 witness: negative terms alone
C16_WitnessNotOnly ==
    /\ Described
    /\ resp.terms.positive = <<>> /\ Len(resp.terms.negative) = 2
    /\ Head(resp.body) = "N"

-----------------------------------------------------------------------------
(* Properties of the statistics *)

FixedDims == {"actions", "protocols", "classtypes", "sources", "categories",
              "enabled_status", "llm_status"}

AbsentOrEmpty(v) == v = None \/ v = <<>>

\* The value a rule is counted under in a fixed dimension
ClaimBucket(dim, rule) ==
    CASE dim = "actions"        -> rule.action
      [] dim = "protocols"      -> rule.protocol
      [] dim = "classtypes"     -> IF AbsentOrEmpty(rule.classtype) THEN Unset ELSE rule.classtype
      [] dim = "sources"        -> IF AbsentOrEmpty(rule.source) THEN Unset ELSE rule.source
      [] dim = "categories"     -> IF AbsentOrEmpty(rule.category) THEN Unset ELSE rule.category
      [] dim = "enabled_status" -> IF rule.enabled THEN StrTrue ELSE StrFalse
      [] dim = "llm_status"     -> IF rule.llm_summary_available THEN StrTrue ELSE StrFalse

RECURSIVE SumOver(_, _)
SumOver(table, keys) ==
    IF keys = {} THEN 0
    ELSE LET k == CHOOSE x \in keys : TRUE
         IN  table[k] + SumOver(table, keys \ {k})

SumTable(table) == SumOver(table, DOMAIN table)

StatsRead == resp.op = "get_stats" /\ resp.body # NoStats

\* C17: in the statistics read, each fixed table maps every value some rule
\* of the snapshot has to the number of rules with that value, a rule whose
\* value is absent or empty counting under "(unset)"; the counts of each
\* table sum to total_rules, the number of rules of the snapshot.
C17_FixedTablesCountEveryRuleOnce ==
    StatsRead =>
        LET stats == resp.body[1]
            rules == resp.seen.rules
        IN  /\ stats.total_rules = Len(rules)
            /\ \A dim \in FixedDims :
                   /\ DOMAIN stats[dim] = {ClaimBucket(dim, rules[i]) : i \in 1..Len(rules)}
                   /\ \A v \in DOMAIN stats[dim] :
                          stats[dim][v] =
                              Cardinality({i \in 1..Len(rules) : ClaimBucket(dim, rules[i]) = v})
                   /\ SumTable(stats[dim]) = stats.total_rules

\* C17 witness: three rules read, one of them without a classtype and one
\* without a category, each under "(unset)" in its table
C17_Witness ==
    /\ StatsRead
    /\ resp.body[1].total_rules = 3
    /\ Unset \in DOMAIN resp.body[1].classtypes
    /\ resp.body[1].classtypes[Unset] = 1
    /\ Unset \in DOMAIN resp.body[1].categories
    /\ DOMAIN resp.body[1].llm_status = {StrTrue, StrFalse}

\* How often rule holds value v under key: once for a string equal to v,
\* once for each element equal to v of a list
Holds(rule, key, v) ==
    IF key \notin DOMAIN rule.metadata THEN 0
    ELSE IF rule.metadata[key].kind = "list"
         THEN Occurrences(rule.metadata[key].val, v)
         ELSE IF rule.metadata[key].val = v THEN 1 ELSE 0

RECURSIVE TotalHeld(_, _, _)
TotalHeld(rules, key, v) ==
    IF rules = <<>> THEN 0 ELSE Holds(Head(rules), key, v) + TotalHeld(Tail(rules), key, v)

Lacking(rules, key) == {i \in 1..Len(rules) : key \notin DOMAIN rules[i].metadata}

\* The rules that lack the key or hold an empty value under it
LackingOrEmpty(rules, key) ==
    {i \in 1..Len(rules) :
        key \notin DOMAIN rules[i].metadata \/ rules[i].metadata[key].val = <<>>}

\* The table of every observed key counts each value other than "(unset)"
\* once per rule holding it, once per element for a list
ValuesCounted(stats, rules) ==
    /\ DOMAIN stats.metadata = UNION {DOMAIN rules[i].metadata : i \in 1..Len(rules)}
    /\ \A key \in DOMAIN stats.metadata :
           /\ \A v \in DOMAIN stats.metadata[key] \ {Unset} :
                  stats.metadata[key][v] = TotalHeld(rules, key, v)
           /\ \A i \in 1..Len(rules), v \in DOMAIN stats.metadata[key] \cup {<<>>, S_a, S_b, S_Major} :
                  Holds(rules[i], key, v) > 0 => v \in DOMAIN stats.metadata[key]

\* C18 (as stated): the table of an observed metadata key counts each value
\* once per rule holding it and has the "(unset)" bucket iff some rule lacks
\* the key entirely, with the number of rules lacking the key as its count.
C18_UnsetCountsMissingKeys ==
    StatsRead =>
        LET stats == resp.body[1]
            rules == resp.seen.rules
        IN  /\ ValuesCounted(stats, rules)
            /\ \A key \in DOMAIN stats.metadata :
                   /\ Unset \in DOMAIN stats.metadata[key] <=> Lacking(rules, key) # {}
                   /\ Unset \in DOMAIN stats.metadata[key] =>
                          stats.metadata[key][Unset] = Cardinality(Lacking(rules, key))

\* C18 (amended): the table of an observed metadata key counts each value,
\* the empty string included, once per rule holding it, once per element for
\* a list, and has the "(unset)" bucket iff some rule lacks the key or holds
\* an empty value under it, with the number of those rules as its count.
C18_UnsetCountsMissingOrEmpty ==
    StatsRead =>
        LET stats == resp.body[1]
            rules == resp.seen.rules
        IN  /\ ValuesCounted(stats, rules)
            /\ \A key \in DOMAIN stats.metadata :
                   /\ Unset \in DOMAIN stats.metadata[key] <=> LackingOrEmpty(rules, key) # {}
                   /\ Unset \in DOMAIN stats.metadata[key] =>
                          stats.metadata[key][Unset] = Cardinality(LackingOrEmpty(rules, key))

\* C18 witness: every rule holds signature_severity, one of them empty: the
\* empty value is counted under '' and under "(unset)"
C18_Witness ==
    /\ StatsRead
    /\ Len(resp.seen.rules) = 2
    /\ Lacking(resp.seen.rules, "signature_severity") = {}
    /\ resp.body[1].metadata["signature_severity"] =
           (S_Major :> 1) @@ (<<>> :> 1) @@ (Unset :> 1)

\* C18 witness: a list of two elements counted once per element, and two
\* rules without the key
C18_WitnessList ==
    /\ StatsRead
    /\ Len(resp.seen.rules) = 3
    /\ "tag" \in DOMAIN resp.body[1].metadata
    /\ resp.body[1].metadata["tag"] = (S_a :> 1) @@ (S_b :> 1) @@ (Unset :> 2)

-----------------------------------------------------------------------------
(* Properties of the criteria evaluator *)

Evaluated == resp.op = "evaluate_criteria"

\* The field names a criterion can resolve: the attributes of the rule and
\* metadata.<key>
KnownField(field) ==
    \/ Len(field) = 1 /\ field[1] \in rule_attributes
    \/ Len(field) = 2 /\ field[1] = "metadata"

\* The value has not the type the operator works on
WrongType(operator, value) ==
    \/ operator \in {"contains", "regex"} /\ value.t # "str"
    \/ operator \in {"in_list", "not_in_list"} /\ value.t # "list"
    \/ operator \in {"greater_than", "less_than"} /\ value.t \in {"list", "none"}

InvalidRegex(operator, value) ==
    /\ operator = "regex"
    /\ value.t = "str"
    /\ value.v \in {S_bad_regex, S_big_repeat}

\* C19 (as stated): every call returns a boolean and raises nothing; an
\* invalid regex pattern, a value of the wrong type for the operator and an
\* unknown field give false.
C19_NeverRaises ==
    Evaluated =>
        /\ resp.raised = "none"
        /\ resp.returned \in {<<TRUE>>, <<FALSE>>}
        /\ (\/ InvalidRegex(req.criteria.operator, req.criteria.value)
            \/ (/\ WrongType(req.criteria.operator, req.criteria.value)
                /\ req.criteria.operator \notin {"exists", "not_exists"})
            \/ ~KnownField(req.criteria.field)) => resp.returned = <<FALSE>>

\* The field resolves to a value on the rule: an attribute that is set, or
\* a key the metadata of the rule holds
Resolves(rule, field) ==
    IF Len(field) = 2 THEN field[1] = "metadata" /\ field[2] \in DOMAIN rule.metadata
    ELSE CASE field[1] \in {"id", "rev"} -> rule[field[1]] # <<>>
           [] field[1] \in {"msg", "classtype", "source", "category"} -> rule[field[1]] # None
           [] field[1] \in {"action", "protocol", "enabled", "tags", "raw_rule",
                            "llm_summary_available"} -> TRUE
           [] OTHER -> FALSE

\* C20: EXISTS returns true iff the field resolves to a value on the rule and
\* NOT_EXISTS returns true iff it does not, neither raises, and the result is
\* the same for every criterion value and case flag; a metadata key counts
\* as resolved when the rule holds it, with the empty string too, and as
\* unresolved when the rule does not hold it.
C20_ExistsIffResolves ==
    (Evaluated /\ req.criteria.operator \in {"exists", "not_exists"}) =>
        /\ resp.raised = "none"
        /\ resp.returned =
               <<(req.criteria.operator = "exists") = Resolves(req.rule, req.criteria.field)>>
        /\ \A v \in CriteriaValues, cs \in BOOLEAN :
               /\ evaluate_criteria(req.rule, Criterion(req.criteria.field, "exists", v, cs))
                      = Resolves(req.rule, req.criteria.field)
               /\ evaluate_criteria(req.rule, Criterion(req.criteria.field, "not_exists", v, cs))
                      = ~Resolves(req.rule, req.criteria.field)

\* C20 witness: EXISTS on a metadata key held with the empty string
C20_Witness ==
    /\ Evaluated
    /\ req.criteria.operator = "exists"
    /\ req.criteria.field = <<"metadata", "signature_severity">>
    /\ req.rule = RulePing
    /\ RulePing.metadata["signature_severity"] = MStr(<<>>)
    /\ resp.returned = <<TRUE>>

\* C20 witness: EXISTS on a metadata key the rule does not hold, among others
C20_WitnessAbsent ==
    /\ Evaluated
    /\ req.criteria.operator = "exists"
    /\ req.criteria.field = <<"metadata", "missing_key">>
    /\ DOMAIN req.rule.metadata # {}
    /\ resp.returned = <<FALSE>>

Comparing == Evaluated /\ req.criteria.operator \notin {"exists", "not_exists"}

\* C21: for each of the seven comparing operators, NOT_IN_LIST among them,
\* the call returns false, and raises nothing, when the field resolves to no
\* value on the rule: an attribute that is not set or that no rule has, a
\* metadata key the rule does not hold, a dotted name outside metadata.
C21_AbsentFieldIsFalse ==
    (Comparing /\ ~Resolves(req.rule, req.criteria.field)) =>
        /\ resp.raised = "none"
        /\ resp.returned = <<FALSE>>

\* C21 witness: NOT_IN_LIST over a list on a metadata key the rule does not
\* hold
C21_Witness ==
    /\ Evaluated
    /\ req.criteria.operator = "not_in_list"
    /\ req.criteria.value = VList(<<S_alert, S_Major>>)
    /\ req.criteria.field = <<"metadata", "missing_key">>
    /\ req.rule = RuleEvil
    /\ resp.returned = <<FALSE>>

\* C21 witness: NOT_IN_LIST on an attribute that is not set
C21_WitnessUnset ==
    /\ Evaluated
    /\ req.criteria.operator = "not_in_list"
    /\ req.criteria.value = VList(<<>>)
    /\ req.criteria.field = <<"classtype">>
    /\ req.rule = RulePing
    /\ resp.returned = <<FALSE>>

\* The criterion value in upper case and in lower case
CaseVariants(value) ==
    CASE value.t = "str"  -> {VStr(Upper(value.v)), VStr(Lower(value.v))}
      [] value.t = "list" -> {VList(UpperAll(value.v)), VList(LowerAll(value.v))}
      [] OTHER            -> {value}

\* C22 (as stated): with case_sensitive false, the result of EXACT_MATCH,
\* CONTAINS, IN_LIST and NOT_IN_LIST is the same for the criterion value
\* written in upper case and in lower case, whatever the type of the value
\* the field holds.
C22_FoldingForEveryField ==
    (/\ Evaluated
     /\ ~req.criteria.case_sensitive
     /\ req.criteria.operator \in {"exact_match", "contains", "in_list", "not_in_list"}) =>
        /\ resp.raised = "none"
        /\ \A v \in CaseVariants(req.criteria.value) :
               <<evaluate_criteria(req.rule, [req.criteria EXCEPT !.value = v])>> = resp.returned

Ordering == Evaluated /\ req.criteria.operator \in {"greater_than", "less_than"}

\* The value is no number: text that is no numeral, a list, null
NotNumeric(x) ==
    \/ x.t \in {"list", "none", "enum"}
    \/ x.t = "str" /\ ~AllDigits(x.v)

\* C23 (as stated): GREATER_THAN and LESS_THAN raise nothing; the result is
\* false when the field or the criterion value is no number; and for one
\* rule, field and value the two operators are never both true.
C23_OrderingIsTotal ==
    Ordering =>
        /\ resp.raised = "none"
        /\ (\/ NotNumeric(get_field_value(req.rule, req.criteria.field))
            \/ NotNumeric(req.criteria.value)) => resp.returned = <<FALSE>>
        /\ ~(/\ evaluate_criteria(req.rule, [req.criteria EXCEPT !.operator = "greater_than"])
             /\ evaluate_criteria(req.rule, [req.criteria EXCEPT !.operator = "less_than"]))

\* The part of C23 that holds: with the integers beyond the range of a
\* double left aside, nothing is raised, a side that is no number gives
\* false, and the two operators are never both true
C23_OrderingWithinRange ==
    (Ordering /\ req.criteria.value # VHugeInt) =>
        /\ resp.raised = "none"
        /\ (\/ NotNumeric(get_field_value(req.rule, req.criteria.field))
            \/ NotNumeric(req.criteria.value)) => resp.returned = <<FALSE>>
        /\ ~(/\ evaluate_criteria(req.rule, [req.criteria EXCEPT !.operator = "greater_than"])
             /\ evaluate_criteria(req.rule, [req.criteria EXCEPT !.operator = "less_than"]))

-----------------------------------------------------------------------------
(* Properties of the dry-run *)

Previewed == resp.op = "test_transform" /\ resp.raised = "none"

\* C24: every dry-run result has each of its three breakdown tables sum to
\* total_matched, total_matched at most total_rules, and total_rules equal
\* to the length of the rule list.
C24_BreakdownsSumToMatched ==
    Previewed =>
        LET result == resp.body[1]
        IN  /\ SumTable(result.breakdown_by_source) = result.total_matched
            /\ SumTable(result.breakdown_by_category) = result.total_matched
            /\ SumTable(result.breakdown_by_action) = result.total_matched
            /\ result.total_matched <= result.total_rules
            /\ result.total_rules = Len(resp.seen.rules)

\* C24 witness: two of three rules matched, one of each source, the rule
\* without source under "(unknown)"
C24_Witness ==
    /\ Previewed
    /\ resp.body[1].total_matched = 2
    /\ resp.body[1].total_rules = 3
    /\ resp.body[1].breakdown_by_source = (StrUnknown :> 1) @@ (S_et_open :> 1)
    /\ resp.body[1].breakdown_by_category = (S_MALWARE :> 2)

\* C24 witness: more matches than examples, all counted
C24_WitnessMany ==
    /\ Previewed
    /\ resp.body[1].total_matched > MaxExamples
    /\ resp.body[1].breakdown_by_action = (S_alert :> resp.body[1].total_matched)

\* What a criterion asks of a rule: "enabled equals true" asks that the rule
\* is enabled, however the true is written; the other criteria are taken as
\* evaluated
Meets(rule, c) ==
    IF c \in {IsEnabled, IsEnabledLower} THEN rule.enabled ELSE evaluate_criteria(rule, c)

MeetingAll(rules, cl) == {i \in 1..Len(rules) : \A k \in 1..Len(cl) : Meets(rules[i], cl[k])}

\* C25 (as stated): total_matched is the number of rules that meet every
\* criterion of the transform, a single criterion counting as a list of one;
\* with the criteria classtype equals trojan-activity and enabled equals
\* true it is the number of enabled rules of that classtype.
C25_MatchedIffAllCriteria ==
    Previewed =>
        resp.body[1].total_matched =
            Cardinality(MeetingAll(resp.seen.rules, transform_criteria(req.transform)))

\* The part of C25 that holds: total_matched is the number of rules for
\* which evaluate_criteria is true on every criterion
C25_MatchedIffAllEvaluateTrue ==
    Previewed =>
        resp.body[1].total_matched =
            Cardinality({i \in 1..Len(resp.seen.rules) :
                \A k \in 1..Len(transform_criteria(req.transform)) :
                    evaluate_criteria(resp.seen.rules[i], transform_criteria(req.transform)[k])})

\* Ten rules of the classtype, seven of them enabled, and the value written
\* 'True': seven matched
C25_SevenOfTen ==
    /\ Previewed
    /\ req.transform.id = "and"
    /\ Len(resp.seen.rules) = 10
    /\ Cardinality({i \in 1..10 : resp.seen.rules[i].enabled}) = 7
    /\ resp.body[1].total_matched = 7

\* The places, in ascending order from place i on, of the rules for which
\* every criterion evaluates true
RECURSIVE MatchingPlaces(_, _, _)
MatchingPlaces(rules, cl, i) ==
    IF i > Len(rules) THEN <<>>
    ELSE (IF \A k \in 1..Len(cl) : evaluate_criteria(rules[i], cl[k]) THEN <<i>> ELSE <<>>)
             \o MatchingPlaces(rules, cl, i + 1)

\* C26: the examples of a dry-run are the first min(total_matched, 10)
\* matching rules in the order of the rule list, one entry for each with its
\* sid, message, source and category, every entry carrying the action list
\* of the transform as submitted; the rule list is left as it was.
C26_ExamplesAreFirstMatches ==
    Previewed =>
        LET result   == resp.body[1]
            rules    == resp.seen.rules
            places   == MatchingPlaces(rules, transform_criteria(req.transform), 1)
            examples == result.example_matches
        IN  /\ Len(places) = result.total_matched
            /\ Len(examples) = (IF result.total_matched < 10 THEN result.total_matched ELSE 10)
            /\ \A k \in 1..Len(examples) :
                   /\ examples[k].sid = rules[places[k]].id[1]
                   /\ examples[k].msg = rules[places[k]].msg
                   /\ examples[k].source = rules[places[k]].source
                   /\ examples[k].category = rules[places[k]].category
                   /\ examples[k].actions_to_apply = req.transform.actions
            /\ rules_cache = rules

\* C26 witness: eleven matches with rules that do not match between them,
\* ten examples, the last of them a rule after the gap
C26_Witness ==
    /\ Previewed
    /\ req.transform.id = "and"
    /\ resp.body[1].total_matched = 11
    /\ resp.body[1].total_rules = 13
    /\ Len(resp.body[1].example_matches) = 10
    /\ resp.body[1].example_matches[10].sid = 112
    /\ resp.body[1].example_matches[1].actions_to_apply = DryRunActions


-----------------------------------------------------------------------------
(* The summary flags after a reload *)

\* The ids whose summaries a load reads from ids-docs.json
SummariesRead(docs) == IF docs.kind = "ok" THEN docs.sids ELSE {}

\* C27: after a reload, a rule carries the summary flag only if a summary
\* for its id was read from ids-docs.json during that reload; no flag is
\* carried over from an earlier load when the file is gone or no longer
\* lists the id.
C27_FlagsComeFromThisReload ==
    resp.op = "reload" =>
        \A i \in Flagged(rules_cache) :
            rules_cache[i].id[1] \in SummariesRead(req.docs)

\* The reload that found no ids-docs.json and left rule 11 flagged
C27_StaleFlag ==
    /\ resp.op = "reload"
    /\ req.docs.kind = "missing"
    /\ \E i \in Flagged(rules_cache) : rules_cache[i].id = <<11>>

-----------------------------------------------------------------------------
(* Empty search terms *)

\* C28: parse_search_query never returns an empty string as a positive or a
\* negative term, whatever the query: a lone '!', a '!' followed by white
\* space and an empty pair of quotes yield no term at all.
C28_NoEmptyTerm ==
    Parsed =>
        /\ \A i \in 1..Len(resp.body.positive) : resp.body.positive[i] # <<>>
        /\ \A i \in 1..Len(resp.body.negative) : resp.body.negative[i] # <<>>

\* The query '!' parsed to the negative term ''
C28_LoneMarkIsEmptyTerm ==
    /\ Parsed
    /\ req.query = <<"!">>
    /\ resp.body.positive = <<>>
    /\ resp.body.negative = << <<>> >>

\* The query '""' parsed to the positive term ''
C28_EmptyQuotesIsEmptyTerm ==
    /\ Parsed
    /\ req.query = <<"\"", "\"">>
    /\ resp.body.positive = << <<>> >>
    /\ resp.body.negative = <<>>

-----------------------------------------------------------------------------
(* The pages of one query *)

\* ceil(total / page_size)
PageCount(total, page_size) == (total + page_size - 1) \div page_size

\* The page the query rq asks for when it is asked for page p instead
PageOf(cache, rq, p) == get_rules(cache, [rq EXCEPT !.page = p]).response.rules

\* Pages first..last of the query, one after the other
RECURSIVE PagesJoined(_, _, _, _)
PagesJoined(cache, rq, first, last) ==
    IF first > last THEN <<>>
    ELSE PageOf(cache, rq, first) \o PagesJoined(cache, rq, first + 1, last)

\* C29: with the snapshot, the filters, the sort parameters and page_size
\* fixed, the pages 1..ceil(total/page_size) of a query, asked for against
\* the rules its answer left published, are one after the other the sorted
\* filtered list, so every filtered rule is on exactly one page; every page
\* but the last holds page_size rules; asking the same query again gives the
\* same answer.
C29_PagesPartitionTheList ==
    resp.op = "get_rules" =>
        LET rq   == req.rq
            last == PageCount(resp.body.total, rq.page_size)
        IN  /\ PagesJoined(rules_cache, rq, 1, last) = resp.filtered
            /\ \A p \in 1..(last - 1) : Len(PageOf(rules_cache, rq, p)) = rq.page_size
            /\ last > 0 => PageOf(rules_cache, rq, last) # <<>>
            /\ get_rules(rules_cache, rq).response = resp.body

\* C29 witness: three filtered rules asked for in pages of two, the first
\* page full and the second holding the one rule left
C29_Witness ==
    /\ resp.op = "get_rules"
    /\ req.rq.page = 1 /\ req.rq.page_size = 2
    /\ resp.body.total = 3
    /\ PageCount(resp.body.total, req.rq.page_size) = 2
    /\ Len(PageOf(rules_cache, req.rq, 1)) = 2
    /\ PageOf(rules_cache, req.rq, 2) = <<resp.filtered[3]>>

-----------------------------------------------------------------------------
(* Properties of the transform repository *)

\* The transform stored under the identifier, <<>> when there is none
StoredUnder(files, transform_id) ==
    IF get_file_path(transform_id) \in DOMAIN files
    THEN <<files[get_file_path(transform_id)]>> ELSE <<>>

\* update or delete, called with an identifier under which nothing is stored
MissesStored(op) ==
    /\ req'.op = op
    /\ StoredUnder(transform_files, req'.transform_id) = <<>>

\* update, called with an identifier under which a transform is stored
UpdatesStored ==
    /\ req'.op = "update"
    /\ StoredUnder(transform_files, req'.transform_id) # <<>>

\* What update and delete do to the store and answer
RepositoryWrites ==
    /\ MissesStored("update") =>
           resp'.returned = <<FALSE>> /\ transform_files' = transform_files
    /\ MissesStored("delete") =>
           resp'.returned = <<FALSE>> /\ transform_files' = transform_files
    /\ UpdatesStored =>
           LET before == StoredUnder(transform_files, req'.transform_id)[1]
               after  == StoredUnder(transform_files', req'.transform_id)[1]
           IN  /\ resp'.returned = <<TRUE>>
               /\ after.id = req'.transform_id
               /\ after.created_at = before.created_at
               /\ after.name = req'.transform[1].name

\* What a read by id answers
ReadAnswersItsId ==
    resp'.op = "read" =>
        \/ resp'.returned = <<>>
        \/ resp'.returned[1].id = req'.transform_id

\* C30: update on an identifier with no stored transform returns false and
\* stores nothing, delete on such an identifier returns false; a successful
\* update leaves the stored identifier equal to the identifier addressed and
\* created_at as it was, whatever the submitted transform carries; after any
\* sequence of create, update and delete a read by id returns a transform
\* with that id or nothing.
C30_ReadByIdReturnsThatId == [][RepositoryWrites /\ ReadAnswersItsId]_vars

\* The part of C30 on update and delete, which the repository keeps
C30_UpdateAndDelete == [][RepositoryWrites]_vars

\* What the repository does keep of a read: the transform returned carries
\* an id that names the file read
C30_ReadReturnsSameFile ==
    resp.op = "read" =>
        \/ resp.returned = <<>>
        \/ get_file_path(resp.returned[1].id) = get_file_path(req.transform_id)

\* read('a') answering the transform created with the id './a'
C30_ReadAnswersOtherId ==
    /\ resp.op = "read"
    /\ req.transform_id = S_a
    /\ resp.returned # <<>>
    /\ resp.returned[1].id = S_dot_a

\* update on an identifier with nothing stored, answered False
C30_UpdateMissing ==
    /\ resp.op = "update"
    /\ resp.returned = <<FALSE>>
    /\ transform_files = NoFiles

\* update with a transform carrying another id, stored under the id addressed
C30_UpdateKeepsId ==
    /\ resp.op = "update"
    /\ resp.returned = <<TRUE>>
    /\ req.transform_id = S_a
    /\ req.transform[1].id = S_dot_a
    /\ StoredUnder(transform_files, S_a)[1].id = S_a
    /\ StoredUnder(transform_files, S_a)[1].created_at # StoredUnder(transform_files, S_a)[1].updated_at
=============================================================================
